---- MODULE Spec2Model ----
(***************************************************************************)
(* Model of the GitHub issue triage MCP server (autotriage_mcp).           *)
(*                                                                         *)
(* Strings are sequences of one-character strings, so that the prefix      *)
(* tests, substring scans, lowercasing, truncation and concatenation of    *)
(* the source are computed and not assumed.  The specifications share the  *)
(* module's variables:                                                     *)
(*   SpecClassify    one call of classifyIssue on a bounded set of inputs; *)
(*   Spec            sequential maintainer-mode triage runs on one record  *)
(*                   of the record store;                                  *)
(*   SpecConcurrent  maintainer-mode triage runs on one record that        *)
(*                   interleave at their external calls;                   *)
(*   SpecBatch       one batch_triage run on the open records of a         *)
(*                   repository;                                           *)
(*   SpecRetry       one call of withRetry;                                *)
(*   SpecContributor one contributor-mode request.                         *)
(***************************************************************************)
EXTENDS Integers, Sequences, FiniteSets, TLC

VARIABLES
    \* ---- classifyIssue, one call (SpecClassify) ----
    clsIn,      \* the call's inputs: title, body, GOOGLE_API_KEY, the oracle's answers
    clsOut,     \* what the call did: returned/threw, oracle invocations, prompt sent
    \* ---- the record store: one issue of one repository ----
    record,     \* [title, body] of the issue
    labels,     \* the issue's labels, in the store's order, no duplicates
    comments,   \* the bodies of the issue's comments, oldest first
    env,        \* process.env: GITHUB_TOKEN and GOOGLE_API_KEY, set or not
    \* ---- the triage_issue requests (maintainer mode), one per handler ----
    pc,                  \* where the handler stands
    issue,               \* the IssueData it fetched
    hasExistingComment,  \* what checkExistingTriageComment returned
    classification,      \* what classifyIssue returned
    toRemove,            \* removeTriageLabels: the triage labels still to remove
    run,                 \* what the request did: labels at its start, calls, result
    \* ---- history across requests ----
    hist,
    \* ---- batch_triage ----
    repo,       \* the open issues of the repository: title, body, labels, comments
    batch,      \* the batch_triage request: position, fetched issues, stats, history
    \* ---- withRetry, one call (SpecRetry) ----
    retry,      \* the wrapped call's answers, maxRetries, and what withRetry did
    \* ---- the tools that only read: contributor mode, and the others ----
    tool        \* the request: its tool and arguments, position, result

classifyVars == <<clsIn, clsOut>>
storeVars == <<record, labels, comments, env>>
handlerVars == <<pc, issue, hasExistingComment, classification, toRemove, run>>
batchVars == <<repo, batch>>
auxVars == <<retry, tool>>
otherVars == <<clsIn, clsOut, repo, batch, retry, tool>>
vars == <<clsIn, clsOut, record, labels, comments, env, pc, issue,
          hasExistingComment, classification, toRemove, run, hist, repo, batch,
          retry, tool>>

(***************************************************************************)
(* Bounds of the model.                                                    *)
(***************************************************************************)
\* bodies up to MaxLength + MaxOver characters are classified
MaxOver == 8
\* triage requests handled one after the other
MaxRuns == 2
\* comments on the record before the first request
MaxInitComments == 31
\* labels on the record before the first request
MaxInitLabels == 3
\* open issues of the repository a batch runs on
MaxBatch == 3
\* the values of maxRetries withRetry is called with
MaxAttempts == 3
\* batch_triage requests one after the other
MaxBatchRuns == 2

(***************************************************************************)
(* Strings.                                                                *)
(***************************************************************************)
Digits == {"0", "1", "2", "3", "4", "5", "6", "7", "8", "9"}
\* the characters the regular expression class \s matches, among those used here
Whitespace == {" ", "\t", "\n", "\r"}

\* the lowercase of each uppercase letter
LowerOf ==
    "A" :> "a" @@ "B" :> "b" @@ "C" :> "c" @@ "D" :> "d" @@ "E" :> "e" @@ "F" :> "f"
    @@ "G" :> "g" @@ "H" :> "h" @@ "I" :> "i" @@ "J" :> "j" @@ "K" :> "k" @@ "L" :> "l"
    @@ "M" :> "m" @@ "N" :> "n" @@ "O" :> "o" @@ "P" :> "p" @@ "Q" :> "q" @@ "R" :> "r"
    @@ "S" :> "s" @@ "T" :> "t" @@ "U" :> "u" @@ "V" :> "v" @@ "W" :> "w" @@ "X" :> "x"
    @@ "Y" :> "y" @@ "Z" :> "z"

\* String.prototype.toLowerCase, one character
LowerChar(c) == IF c \in DOMAIN LowerOf THEN LowerOf[c] ELSE c

\* String.prototype.toLowerCase
ToLowerCase(s) == SubSeq([i \in 1..Len(s) |-> LowerChar(s[i])], 1, Len(s))

RECURSIVE TrimLeft(_)
TrimLeft(s) == IF s # <<>> /\ Head(s) \in Whitespace THEN TrimLeft(Tail(s)) ELSE s

RECURSIVE TrimRight(_)
TrimRight(s) ==
    IF s # <<>> /\ s[Len(s)] \in Whitespace THEN TrimRight(SubSeq(s, 1, Len(s) - 1)) ELSE s

\* String.prototype.trim
Trim(s) == TrimRight(TrimLeft(s))

\* the literal w occurs in s at position i (1-based)
LitAt(s, i, w) ==
    /\ i >= 1
    /\ i + Len(w) - 1 <= Len(s)
    /\ \A k \in 1..Len(w) : s[i + k - 1] = w[k]

\* String.prototype.includes
Includes(s, w) == \E i \in 1..(Len(s) - Len(w) + 1) : LitAt(s, i, w)

\* String.prototype.startsWith, the effect of a regular expression anchored by ^
StartsWith(s, w) == LitAt(s, 1, w)

\* String.prototype.substring(0, n)
Substring0(s, n) == SubSeq(s, 1, IF n < Len(s) THEN n ELSE Len(s))

\* a body of n filler characters
Filler(n) == SubSeq([i \in 1..n |-> "x"], 1, n)

(***************************************************************************)
(* classifier.ts: the P0 heuristic.                                        *)
(***************************************************************************)
\* /a\s+(b|c)/ matches the lowercased text t somewhere
WordsMatch(t, first, seconds) ==
    \E i \in 1..Len(t) :
        /\ LitAt(t, i, first)
        /\ \E j \in (i + Len(first) + 1)..Len(t) :
              /\ \A k \in (i + Len(first))..(j - 1) : t[k] \in Whitespace
              /\ \E w \in seconds : LitAt(t, j, w)

\* /crash(ed|ing)?/i
P0Crash(t) ==
    \E i \in 1..Len(t) :
        /\ LitAt(t, i, <<"c", "r", "a", "s", "h">>)
        /\ \/ LitAt(t, i + 5, <<"e", "d">>)
           \/ LitAt(t, i + 5, <<"i", "n", "g">>)
           \/ TRUE

\* /CVE-\d+/i
P0Cve(t) ==
    \E i \in 1..Len(t) :
        /\ LitAt(t, i, <<"c", "v", "e", "-">>)
        /\ i + 4 <= Len(t)
        /\ t[i + 4] \in Digits

\* P0_KEYWORDS.some(pattern => pattern.test(text)), the text lowercased for /i
P0KeywordsMatch(t) ==
    \/ P0Crash(t)
    \/ WordsMatch(t, <<"s", "e", "c", "u", "r", "i", "t", "y">>, {<<"v", "u", "l", "n", "e", "r", "a", "b", "i", "l", "i", "t", "y">>, <<"i", "s", "s", "u", "e">>, <<"b", "u", "g">>, <<"f", "l", "a", "w">>})
    \/ WordsMatch(t, <<"d", "a", "t", "a">>, {<<"l", "o", "s", "s">>})
    \/ WordsMatch(t, <<"p", "r", "o", "d", "u", "c", "t", "i", "o", "n">>, {<<"d", "o", "w", "n">>})
    \/ WordsMatch(t, <<"c", "r", "i", "t", "i", "c", "a", "l">>, {<<"b", "u", "g">>, <<"i", "s", "s", "u", "e">>})
    \/ Includes(t, <<"s", "e", "v", "e", "r", "e">>)
    \/ Includes(t, <<"u", "r", "g", "e", "n", "t">>)
    \/ Includes(t, <<"e", "x", "p", "l", "o", "i", "t">>)
    \/ P0Cve(t)
    \/ Includes(t, <<"v", "u", "l", "n", "e", "r", "a", "b", "i", "l", "i", "t", "y">>)

\* a scan that forgets the body
checkP0KeywordsTitleOnly(title, body) ==
    P0KeywordsMatch(ToLowerCase(title))

checkP0Keywords(title, body) ==
    LET text == title \o <<" ">> \o body
    IN  P0KeywordsMatch(ToLowerCase(text))

(***************************************************************************)
(* classifier.ts: truncation.                                              *)
(***************************************************************************)
MaxLength == 2000
TruncationMarker == <<"\n", "\n", "[", ".", ".", ".", " ", "t", "r", "u", "n", "c", "a", "t", "e", "d", " ", "f", "o", "r", " ", "a", "n", "a", "l", "y", "s", "i", "s", "]">>

\* a truncation that cuts from maxLength characters on
truncateIssueBodyStrict(body, maxLength) ==
    IF Len(body) < maxLength
    THEN body
    ELSE Substring0(body, maxLength) \o TruncationMarker

truncateIssueBody(body, maxLength) ==
    IF Len(body) <= maxLength
    THEN body
    ELSE Substring0(body, maxLength) \o TruncationMarker

(***************************************************************************)
(* utils.ts: withRetry.  The wrapped call is given by its answers, one per *)
(* attempt: [ok, value, error], error = [status, message] (status 0: none).*)
(***************************************************************************)
MaxRetries == 3

NoError == [status |-> 0, message |-> <<>>]
NoValue == [kind |-> "none"]

Ok(v) == [ok |-> TRUE, value |-> v, error |-> NoError]
Fail(status, message) ==
    [ok |-> FALSE, value |-> NoValue, error |-> [status |-> status, message |-> message]]

\* a test that knows the status 429 only
is429StatusOnly(error) == error.status = 429

\* a test that takes every error for a rate limit
is429Always(error) == TRUE

is429(error) ==
    \/ error.status = 429
    \/ Includes(error.message, <<"4", "2", "9">>)
    \/ Includes(error.message, <<"R", "E", "S", "O", "U", "R", "C", "E", "_", "E", "X", "H", "A", "U", "S", "T", "E", "D">>)
    \/ Includes(error.message, <<"r", "a", "t", "e", " ", "l", "i", "m", "i", "t">>)

\* a delay that does not grow
Pow2Constant(i) == 1

RECURSIVE Pow2(_)
Pow2(i) == IF i = 0 THEN 1 ELSE 2 * Pow2(i - 1)

MaxRetriesExceeded == [status |-> 0, message |-> <<"M", "a", "x", " ", "r", "e", "t", "r", "i", "e", "s", " ", "e", "x", "c", "e", "e", "d", "e", "d">>]

\* the loop of withRetry from iteration i on; waits are the delays slept so far (ms)
RECURSIVE RetryLoop(_, _, _, _)
RetryLoop(answers, maxRetries, i, waits) ==
    IF i >= maxRetries
    THEN [threw |-> TRUE, value |-> NoValue, error |-> MaxRetriesExceeded,
          calls |-> i, waits |-> waits]
    ELSE LET a == answers[i + 1] IN
         IF a.ok
         THEN [threw |-> FALSE, value |-> a.value, error |-> NoError,
               calls |-> i + 1, waits |-> waits]
         ELSE IF ~is429(a.error) \/ i = maxRetries - 1
              THEN [threw |-> TRUE, value |-> NoValue, error |-> a.error,
                    calls |-> i + 1, waits |-> waits]
              ELSE RetryLoop(answers, maxRetries, i + 1, Append(waits, Pow2(i) * 1000))

withRetry(answers, maxRetries) == RetryLoop(answers, maxRetries, 0, <<>>)

\* the errors a wrapped call may throw: status 429; a message naming 429, the
\* oracle's RESOURCE_EXHAUSTED, the record store's rate limit under status 403;
\* errors that are none of these
RetryErrors ==
    { Fail(429, <<"T", "o", "o", " ", "M", "a", "n", "y", " ", "R", "e", "q", "u", "e", "s", "t", "s">>),
      Fail(0, <<"[", "G", "o", "o", "g", "l", "e", "G", "e", "n", "e", "r", "a", "t", "i", "v", "e", "A", "I", " ", "E", "r", "r", "o", "r", "]", ":", " ", "R", "E", "S", "O", "U", "R", "C", "E", "_", "E", "X", "H", "A", "U", "S", "T", "E", "D">>),
      Fail(403, <<"A", "P", "I", " ", "r", "a", "t", "e", " ", "l", "i", "m", "i", "t", " ", "e", "x", "c", "e", "e", "d", "e", "d", " ", "f", "o", "r", " ", "u", "s", "e", "r">>),
      Fail(0, <<"f", "e", "t", "c", "h", " ", "f", "a", "i", "l", "e", "d", ":", " ", "4", "2", "9">>),
      Fail(500, <<"I", "n", "t", "e", "r", "n", "a", "l", " ", "S", "e", "r", "v", "e", "r", " ", "E", "r", "r", "o", "r">>),
      Fail(404, <<"N", "o", "t", " ", "F", "o", "u", "n", "d">>) }

RetryAnswers == RetryErrors \cup { Ok([kind |-> "data"]), Ok([kind |-> "more"]) }

RetryNotCalled ==
    [called |-> FALSE, threw |-> FALSE, value |-> NoValue, error |-> NoError,
     calls |-> 0, waits |-> <<>>]

IdleRetry ==
    retry = [answers |-> <<>>, maxRetries |-> 0, out |-> RetryNotCalled]

\* a call about to be wrapped: one answer for each attempt it may be given
InitRetry ==
    \E n \in 1..MaxAttempts :
        \E answers \in [1..n -> RetryAnswers] :
            retry = [answers |-> answers, maxRetries |-> n, out |-> RetryNotCalled]

\* withRetry(fn, maxRetries)
RetryCall ==
    /\ ~retry.out.called
    /\ LET r == withRetry(retry.answers, retry.maxRetries) IN
         retry' = [retry EXCEPT !.out = [called |-> TRUE, threw |-> r.threw,
                                         value |-> r.value, error |-> r.error,
                                         calls |-> r.calls, waits |-> r.waits]]
    /\ UNCHANGED <<clsIn, clsOut, record, labels, comments, env, pc, issue,
                   hasExistingComment, classification, toRemove, run, hist, repo, batch,
                   tool>>

(***************************************************************************)
(* classifier.ts: the oracle adapter.                                      *)
(* The oracle's response text is given by what JSON.parse makes of it:     *)
(* kind "garbage" (a SyntaxError), "null", or "object" with the four       *)
(* properties, each a JavaScript value [t, s]: undefined or a string.      *)
(* kind "blocked" is a response whose text() throws.                       *)
(***************************************************************************)
Undefined == [t |-> "undefined", s |-> <<>>]
JsStr(s) == [t |-> "string", s |-> s]
\* !v is false
Truthy(v) == v.t = "string" /\ v.s # <<>>

validTypes == {<<"b", "u", "g">>, <<"f", "e", "a", "t", "u", "r", "e">>, <<"e", "n", "h", "a", "n", "c", "e", "m", "e", "n", "t">>, <<"q", "u", "e", "s", "t", "i", "o", "n">>}
validPriorities == {<<"P", "0">>, <<"P", "1">>, <<"P", "2">>, <<"P", "3">>}
validComplexities == {<<"L", "o", "w">>, <<"M", "e", "d", "i", "u", "m">>, <<"H", "i", "g", "h">>}

FallbackClassification ==
    [type |-> <<"b", "u", "g">>, priority |-> <<"P", "2">>, complexity |-> <<"M", "e", "d", "i", "u", "m">>,
     reasoning |-> <<"C", "l", "a", "s", "s", "i", "f", "i", "c", "a", "t", "i", "o", "n", " ", "f", "a", "i", "l", "e", "d", ",", " ", "u", "s", "i", "n", "g", " ", "d", "e", "f", "a", "u", "l", "t", " ", "v", "a", "l", "u", "e", "s">>]

ErrNoApiKey == [status |-> 0, message |-> <<"G", "O", "O", "G", "L", "E", "_", "A", "P", "I", "_", "K", "E", "Y", " ", "e", "n", "v", "i", "r", "o", "n", "m", "e", "n", "t", " ", "v", "a", "r", "i", "a", "b", "l", "e", " ", "i", "s", " ", "n", "o", "t", " ", "s", "e", "t">>]
ErrBlocked == [status |-> 0, message |-> <<"R", "e", "s", "p", "o", "n", "s", "e", " ", "w", "a", "s", " ", "b", "l", "o", "c", "k", "e", "d", " ", "d", "u", "e", " ", "t", "o", " ", "S", "A", "F", "E", "T", "Y">>]

\* a validation that requires the properties and checks no enumeration
ParsedIsPresent(text) ==
    /\ text.kind = "object"
    /\ Truthy(text.obj.type)
    /\ Truthy(text.obj.priority)
    /\ Truthy(text.obj.complexity)
    /\ Truthy(text.obj.reasoning)

\* the try block of classifyIssueWithGemini; FALSE stands for a throw inside it
ParsedIsValid(text) ==
    /\ text.kind = "object"
    /\ Truthy(text.obj.type)
    /\ Truthy(text.obj.priority)
    /\ Truthy(text.obj.complexity)
    /\ Truthy(text.obj.reasoning)
    /\ text.obj.type.s \in validTypes
    /\ text.obj.priority.s \in validPriorities
    /\ text.obj.complexity.s \in validComplexities

ParseClassification(text) ==
    IF ParsedIsValid(text)
    THEN [type |-> text.obj.type.s, priority |-> text.obj.priority.s,
          complexity |-> text.obj.complexity.s, reasoning |-> text.obj.reasoning.s]
    ELSE FallbackClassification

NoPrompt == [title |-> <<>>, body |-> <<>>]

\* Result of a call: threw or returned value; calls = invocations of
\* model.generateContent; prompt = the title and body placed in the prompt.
classifyIssueWithGemini(title, body, apiKey, answers) ==
    IF ~apiKey
    THEN [threw |-> TRUE, error |-> ErrNoApiKey, value |-> FallbackClassification,
          calls |-> 0, waits |-> <<>>, prompt |-> NoPrompt]
    ELSE LET truncatedBody == truncateIssueBody(body, MaxLength)
             prompt == [title |-> title, body |-> truncatedBody]
             result == withRetry(answers, MaxRetries)
         IN  IF result.threw
             THEN [threw |-> TRUE, error |-> result.error, value |-> FallbackClassification,
                   calls |-> result.calls, waits |-> result.waits, prompt |-> prompt]
             ELSE IF result.value.kind = "blocked"
                  THEN [threw |-> TRUE, error |-> ErrBlocked,
                        value |-> FallbackClassification,
                        calls |-> result.calls, waits |-> result.waits, prompt |-> prompt]
                  ELSE [threw |-> FALSE, error |-> NoError,
                        value |-> ParseClassification(result.value),
                        calls |-> result.calls, waits |-> result.waits, prompt |-> prompt]

OverrideNotice == <<"P", "0", " ", "o", "v", "e", "r", "r", "i", "d", "e", " ", "a", "p", "p", "l", "i", "e", "d", " ", "d", "u", "e", " ", "t", "o", " ", "c", "r", "i", "t", "i", "c", "a", "l", " ", "k", "e", "y", "w", "o", "r", "d", "s", ".", " ">>

\* an override that takes a critical issue for a bug
P0OverrideForcesBug(c) ==
    [c EXCEPT !.type = <<"b", "u", "g">>, !.priority = <<"P", "0">>,
              !.reasoning = OverrideNotice \o c.reasoning]

\* the object spread of classifyIssue when the heuristic matches
P0Override(c) ==
    [c EXCEPT !.priority = <<"P", "0">>, !.reasoning = OverrideNotice \o c.reasoning]

\* a policy that saves the oracle call when the heuristic matches
classifyIssueSkipsOracle(title, body, apiKey, answers) ==
    IF checkP0Keywords(title, body)
    THEN [threw |-> FALSE, error |-> NoError, value |-> P0Override(FallbackClassification),
          calls |-> 0, waits |-> <<>>, prompt |-> NoPrompt]
    ELSE classifyIssueWithGemini(title, body, apiKey, answers)

classifyIssue(title, body, apiKey, answers) ==
    IF checkP0Keywords(title, body)
    THEN LET r == classifyIssueWithGemini(title, body, apiKey, answers) IN
         IF r.threw THEN r ELSE [r EXCEPT !.value = P0Override(r.value)]
    ELSE classifyIssueWithGemini(title, body, apiKey, answers)

(***************************************************************************)
(* Inputs of the classification calls that are explored.                   *)
(***************************************************************************)
Obj(t, p, c, r) ==
    [kind |-> "object", obj |-> [type |-> t, priority |-> p, complexity |-> c, reasoning |-> r]]
NoObj == [type |-> Undefined, priority |-> Undefined, complexity |-> Undefined,
          reasoning |-> Undefined]
Garbage == [kind |-> "garbage", obj |-> NoObj]
JsonNull == [kind |-> "null", obj |-> NoObj]
Blocked == [kind |-> "blocked", obj |-> NoObj]

Judgment(t, p, c, r) == Obj(JsStr(t), JsStr(p), JsStr(c), JsStr(r))

\* oracle answers that pass the validation
ValidOutputs ==
    { Judgment(<<"b", "u", "g">>, <<"P", "0">>, <<"L", "o", "w">>, <<"i", "t", " ", "b", "r", "e", "a", "k", "s">>),
      Judgment(<<"b", "u", "g">>, <<"P", "3">>, <<"H", "i", "g", "h">>, <<"m", "i", "n", "o", "r">>),
      Judgment(<<"f", "e", "a", "t", "u", "r", "e">>, <<"P", "1">>, <<"H", "i", "g", "h">>, <<"n", "e", "w", " ", "t", "h", "i", "n", "g">>),
      Judgment(<<"e", "n", "h", "a", "n", "c", "e", "m", "e", "n", "t">>, <<"P", "2">>, <<"M", "e", "d", "i", "u", "m">>, <<"n", "i", "c", "e", "r">>),
      Judgment(<<"q", "u", "e", "s", "t", "i", "o", "n">>, <<"P", "3">>, <<"L", "o", "w">>, <<"a", "s", "k", "s", " ", "h", "o", "w">>),
      Judgment(<<"f", "e", "a", "t", "u", "r", "e">>, <<"P", "2">>, <<"L", "o", "w">>, <<"C", "l", "a", "s", "s", "i", "f", "i", "c", "a", "t", "i", "o", "n", " ", "f", "a", "i", "l", "e", "d", ",", " ", "u", "s", "i", "n", "g", " ", "d", "e", "f", "a", "u", "l", "t", " ", "v", "a", "l", "u", "e", "s">>) }

\* oracle answers that do not
MalformedOutputs ==
    { Garbage, JsonNull,
      Obj(Undefined, JsStr(<<"P", "1">>), JsStr(<<"H", "i", "g", "h">>), JsStr(<<"r">>)),
      Obj(JsStr(<<>>), JsStr(<<"P", "1">>), JsStr(<<"H", "i", "g", "h">>), JsStr(<<"r">>)),
      Obj(JsStr(<<"B", "u", "g">>), JsStr(<<"P", "1">>), JsStr(<<"H", "i", "g", "h">>), JsStr(<<"r">>)),
      Obj(JsStr(<<"d", "o", "c", "u", "m", "e", "n", "t", "a", "t", "i", "o", "n">>), JsStr(<<"P", "1">>), JsStr(<<"H", "i", "g", "h">>), JsStr(<<"r">>)),
      Obj(JsStr(<<"f", "e", "a", "t", "u", "r", "e">>), Undefined, JsStr(<<"H", "i", "g", "h">>), JsStr(<<"r">>)),
      Obj(JsStr(<<"f", "e", "a", "t", "u", "r", "e">>), JsStr(<<"p", "1">>), JsStr(<<"H", "i", "g", "h">>), JsStr(<<"r">>)),
      Obj(JsStr(<<"f", "e", "a", "t", "u", "r", "e">>), JsStr(<<"C", "r", "i", "t", "i", "c", "a", "l">>), JsStr(<<"H", "i", "g", "h">>), JsStr(<<"r">>)),
      Obj(JsStr(<<"f", "e", "a", "t", "u", "r", "e">>), JsStr(<<"P", "1">>), Undefined, JsStr(<<"r">>)),
      Obj(JsStr(<<"f", "e", "a", "t", "u", "r", "e">>), JsStr(<<"P", "1">>), JsStr(<<"h", "i", "g", "h">>), JsStr(<<"r">>)),
      Obj(JsStr(<<"f", "e", "a", "t", "u", "r", "e">>), JsStr(<<"P", "1">>), JsStr(<<"H", "i", "g", "h">>), Undefined),
      Obj(JsStr(<<"f", "e", "a", "t", "u", "r", "e">>), JsStr(<<"P", "1">>), JsStr(<<"H", "i", "g", "h">>), JsStr(<<>>)) }

OracleOutputs == ValidOutputs \cup MalformedOutputs

RateLimited == Fail(429, <<"T", "o", "o", " ", "M", "a", "n", "y", " ", "R", "e", "q", "u", "e", "s", "t", "s">>)
ResourceExhausted == Fail(0, <<"[", "G", "o", "o", "g", "l", "e", "G", "e", "n", "e", "r", "a", "t", "i", "v", "e", "A", "I", " ", "E", "r", "r", "o", "r", "]", ":", " ", "R", "E", "S", "O", "U", "R", "C", "E", "_", "E", "X", "H", "A", "U", "S", "T", "E", "D">>)
ServerError == Fail(500, <<"I", "n", "t", "e", "r", "n", "a", "l", " ", "S", "e", "r", "v", "e", "r", " ", "E", "r", "r", "o", "r">>)

\* the oracle answers at once
Direct(o) == <<Ok(o), Ok(o), Ok(o)>>

\* the oracle's answers to the attempts of one withRetry
AnswerScripts(o) ==
    { Direct(o),
      <<RateLimited, Ok(o), Ok(o)>>,
      <<RateLimited, ResourceExhausted, Ok(o)>>,
      <<RateLimited, ResourceExhausted, RateLimited>>,
      <<ServerError, Ok(o), Ok(o)>>,
      <<ResourceExhausted, ServerError, Ok(o)>>,
      <<Ok(Blocked), Ok(o), Ok(o)>> }

Titles == { <<"A", "d", "d", " ", "d", "a", "r", "k", " ", "m", "o", "d", "e">>, <<"L", "o", "s", "t", " ", "d", "a", "t", "a">>, <<"U", "R", "G", "E", "N", "T", ":", " ", "f", "i", "x", " ", "l", "o", "g", "i", "n">> }

ShortBodies ==
    { <<>>,
      <<"l", "o", "s", "s", " ", "o", "f", " ", "f", "i", "l", "e", "s", " ", "a", "f", "t", "e", "r", " ", "s", "y", "n", "c">>,
      <<"I", "t", " ", "C", "r", "a", "s", "h", "e", "d", " ", "o", "n", " ", "s", "t", "a", "r", "t">>,
      <<"a", " ", "s", "e", "c", "u", "r", "i", "t", "y", " ", "\n", " ", "f", "l", "a", "w", ",", " ", "s", "e", "e", " ", "C", "V", "E", "-", "7">>,
      <<"t", "r", "a", "c", "k", "e", "d", " ", "a", "s", " ", "c", "v", "e", "-", "x", ",", " ", "p", "r", "o", "d", "u", "c", "t", "i", "o", "n", " ", "i", "s", " ", "d", "o", "w", "n", " ", "s", "o", "o", "n">> }

\* bodies around the truncation limit, without and with a keyword
LongBodies ==
    { Filler(MaxLength - 1), Filler(MaxLength), Filler(MaxLength + 1),
      Filler(MaxLength + MaxOver),
      Filler(MaxLength - 3) \o <<"u", "r", "g", "e", "n", "t">> \o Filler(MaxOver),
      Filler(MaxLength + 1) \o <<"u", "r", "g", "e", "n", "t">>,
      <<"e", "x", "p", "l", "o", "i", "t">> \o Filler(MaxLength + MaxOver - 7) }

Bodies == ShortBodies \cup LongBodies

NotCalled ==
    [called |-> FALSE, threw |-> FALSE, error |-> NoError, value |-> FallbackClassification,
     calls |-> 0, waits |-> <<>>, prompt |-> NoPrompt]

\* every short text with every oracle output; every answer script and both
\* settings of the key with two outputs; the long bodies with a few outputs
ClassifyInputs ==
    { [title |-> t, body |-> b, apiKey |-> TRUE, answers |-> Direct(o)] :
          t \in Titles, b \in ShortBodies, o \in OracleOutputs }
    \cup
    { [title |-> t, body |-> b, apiKey |-> k, answers |-> a] :
          t \in Titles, b \in ShortBodies, k \in BOOLEAN,
          a \in AnswerScripts(Judgment(<<"b", "u", "g">>, <<"P", "3">>, <<"H", "i", "g", "h">>, <<"m", "i", "n", "o", "r">>))
                \cup AnswerScripts(Garbage) }
    \cup
    { [title |-> t, body |-> b, apiKey |-> TRUE, answers |-> Direct(o)] :
          t \in {<<"A", "d", "d", " ", "d", "a", "r", "k", " ", "m", "o", "d", "e">>, <<"L", "o", "s", "t", " ", "d", "a", "t", "a">>}, b \in LongBodies,
          o \in {Judgment(<<"f", "e", "a", "t", "u", "r", "e">>, <<"P", "1">>, <<"H", "i", "g", "h">>, <<"n", "e", "w", " ", "t", "h", "i", "n", "g">>), Garbage} }

IdleClassify == clsIn = [title |-> <<>>, body |-> <<>>, apiKey |-> FALSE,
                         answers |-> Direct(Garbage)]
                /\ clsOut = NotCalled

InitClassify == clsIn \in ClassifyInputs /\ clsOut = NotCalled

\* one call of classifyIssue(title, body)
ClassifyCall ==
    /\ ~clsOut.called
    /\ LET r == classifyIssue(clsIn.title, clsIn.body, clsIn.apiKey, clsIn.answers) IN
       clsOut' = [called |-> TRUE, threw |-> r.threw, error |-> r.error, value |-> r.value,
                  calls |-> r.calls, waits |-> r.waits, prompt |-> r.prompt]
    /\ UNCHANGED <<clsIn, storeVars, handlerVars, hist, batchVars, auxVars>>

(***************************************************************************)
(* github.ts: labels and comments.                                         *)
(***************************************************************************)
TRIAGE_COMMENT_SIGNATURE == <<"U+1F50E", " ", "I", "s", "s", "u", "e", " ", "T", "r", "i", "a", "g", "e", " ", "S", "u", "m", "m", "a", "r", "y">>

\* a pattern that lost its ^ anchor
isTriageLabelUnanchored(label) ==
    \/ Includes(label, <<"t", "y", "p", "e", "-">>)
    \/ Includes(label, <<"p", "r", "i", "o", "r", "i", "t", "y", "-">>)
    \/ Includes(label, <<"c", "o", "m", "p", "l", "e", "x", "i", "t", "y", "-">>)

\* TRIAGE_LABEL_PATTERNS.test(label): /^(type|priority|complexity)-/
isTriageLabel(label) ==
    \/ StartsWith(label, <<"t", "y", "p", "e", "-">>)
    \/ StartsWith(label, <<"p", "r", "i", "o", "r", "i", "t", "y", "-">>)
    \/ StartsWith(label, <<"c", "o", "m", "p", "l", "e", "x", "i", "t", "y", "-">>)

\* a filter whose pattern names two of the three dimensions
triageLabelsNoComplexity(currentLabels) ==
    SelectSeq(currentLabels,
              LAMBDA l : StartsWith(l, <<"t", "y", "p", "e", "-">>) \/ StartsWith(l, <<"p", "r", "i", "o", "r", "i", "t", "y", "-">>))

\* a removal that stops after the first triage label
triageLabelsFirstOnly(currentLabels) ==
    SubSeq(SelectSeq(currentLabels, isTriageLabel), 1,
           IF SelectSeq(currentLabels, isTriageLabel) = <<>> THEN 0 ELSE 1)

\* removeTriageLabels: currentLabels.filter(label => TRIAGE_LABEL_PATTERNS.test(label))
triageLabels(currentLabels) == SelectSeq(currentLabels, isTriageLabel)

\* a mapping that keeps the case of the classification
mapToKebabLabelsNoLower(c) ==
    << <<"t", "y", "p", "e", "-">> \o c.type, <<"p", "r", "i", "o", "r", "i", "t", "y", "-">> \o c.priority, <<"c", "o", "m", "p", "l", "e", "x", "i", "t", "y", "-">> \o c.complexity >>

mapToKebabLabels(c) ==
    << <<"t", "y", "p", "e", "-">> \o c.type,
       <<"p", "r", "i", "o", "r", "i", "t", "y", "-">> \o ToLowerCase(c.priority),
       <<"c", "o", "m", "p", "l", "e", "x", "i", "t", "y", "-">> \o ToLowerCase(c.complexity) >>

\* applyLabels: the reduce that drops case-insensitive duplicates
RECURSIVE uniqueLabels(_, _)
uniqueLabels(ls, acc) ==
    IF ls = <<>> THEN acc
    ELSE LET label == Head(ls)
             normalized == Trim(ToLowerCase(label))
         IN  IF \E i \in 1..Len(acc) : ToLowerCase(acc[i]) = normalized
             THEN uniqueLabels(Tail(ls), acc)
             ELSE uniqueLabels(Tail(ls), Append(acc, Trim(label)))

\* generateTriageComment, up to the reasoning; the next steps and the footer that
\* follow are fixed text for a classification and hold no signature
generateTriageComment(c) ==
    TRIAGE_COMMENT_SIGNATURE \o <<"\n", "\n", "*", "*", "T", "y", "p", "e", ":", "*", "*", " ">> \o c.type
        \o <<"\n", "*", "*", "P", "r", "i", "o", "r", "i", "t", "y", ":", "*", "*", " ">> \o c.priority
        \o <<"\n", "*", "*", "C", "o", "m", "p", "l", "e", "x", "i", "t", "y", ":", "*", "*", " ">> \o c.complexity
        \o <<"\n", "\n", "*", "*", "R", "e", "a", "s", "o", "n", "i", "n", "g", ":", "*", "*", "\n">> \o c.reasoning

\* comment.body?.includes(TRIAGE_COMMENT_SIGNATURE)
HasSignature(body) == Includes(body, TRIAGE_COMMENT_SIGNATURE)

(***************************************************************************)
(* The record store (the GitHub REST API), as the calls of github.ts use   *)
(* it.                                                                     *)
(***************************************************************************)
\* issues.listComments is called with no page and no per_page: the store answers
\* with the first page, of its default size
PerPage == 30

StoreListComments(cs) == SubSeq(cs, 1, IF Len(cs) < PerPage THEN Len(cs) ELSE PerPage)

InSeq(x, s) == \E i \in 1..Len(s) : s[i] = x

Without(s, x) == SelectSeq(s, LAMBDA y : y # x)

\* issues.addLabels: the labels not yet on the issue are added
RECURSIVE StoreAddLabels(_, _)
StoreAddLabels(ls, names) ==
    IF names = <<>> THEN ls
    ELSE IF InSeq(Head(names), ls)
         THEN StoreAddLabels(ls, Tail(names))
         ELSE StoreAddLabels(Append(ls, Head(names)), Tail(names))

\* issues.removeLabel answers 404 for a label that is not on the issue
StoreRemoveLabelAnswer(ls, name) ==
    IF InSeq(name, ls) THEN Ok([kind |-> "removed"]) ELSE Fail(404, <<"L", "a", "b", "e", "l", " ", "d", "o", "e", "s", " ", "n", "o", "t", " ", "e", "x", "i", "s", "t">>)

\* the answers to the attempts of one withRetry: the faults, then the store's answer
Answers(faults, answer) ==
    [i \in 1..MaxRetries |-> IF i <= Len(faults) THEN faults[i] ELSE answer]

\* what may go wrong with a call of the record store
StoreFaults ==
    { <<>>, <<RateLimited>>, <<RateLimited, RateLimited, RateLimited>>, <<ServerError>> }

FetchFaults ==
    StoreFaults \cup { <<Fail(404, <<"N", "o", "t", " ", "F", "o", "u", "n", "d">>)>>, <<Fail(401, <<"B", "a", "d", " ", "c", "r", "e", "d", "e", "n", "t", "i", "a", "l", "s">>)>>,
                       <<RateLimited, Fail(403, <<"F", "o", "r", "b", "i", "d", "d", "e", "n">>)>> }

ErrNoToken == [status |-> 0, message |-> <<"G", "I", "T", "H", "U", "B", "_", "T", "O", "K", "E", "N", " ", "e", "n", "v", "i", "r", "o", "n", "m", "e", "n", "t", " ", "v", "a", "r", "i", "a", "b", "l", "e", " ", "i", "s", " ", "n", "o", "t", " ", "s", "e", "t">>]

(***************************************************************************)
(* index.ts: the triage_issue handler, maintainer mode.                    *)
(***************************************************************************)
NumHandlers == 2
Handlers == 1..NumHandlers

JsNull == [t |-> "null", s |-> <<>>]

NoIssue == [title |-> <<>>, body |-> <<>>, labels |-> <<>>]
NoResult == [isError |-> FALSE, kind |-> "none"]
\* what a request did, kept beside it: the labels and comments of the record when
\* it arrived, the external calls it made, the step it failed at, the error thrown
NoRun == [start |-> <<>>, comments0 |-> <<>>, listed |-> FALSE, oracleCalls |-> 0,
          removed |-> <<>>, added |-> <<>>, posted |-> FALSE, calls |-> <<>>,
          failedAt |-> "none", thrown |-> NoError, result |-> NoResult]

ErrorResult(kind) == [isError |-> TRUE, kind |-> kind]
SuccessResult(kind) == [isError |-> FALSE, kind |-> kind]

\* an outer catch that throws the error again: the request has no result
UnexpectedRethrown == [isError |-> TRUE, kind |-> "none"]

\* the outer catch of the handler: any error thrown inside it
Unexpected == ErrorResult("Unexpected")

\* a fetch that treats 403 as an unexpected failure
fetchErrorResultNo403(error) ==
    IF error.status = 404 THEN ErrorResult("NotFound")
    ELSE IF error.status = 401 THEN ErrorResult("Auth")
         ELSE Unexpected

\* Step 1, catch: 404, 401 and 403 are controlled failures, any other error is
\* thrown again and caught by the outer catch
fetchErrorResult(error) ==
    IF error.status = 404 THEN ErrorResult("NotFound")
    ELSE IF error.status = 401 \/ error.status = 403 THEN ErrorResult("Auth")
         ELSE Unexpected

\* a catch that answers a failed classification with a success
classifyErrorResultSwallowed(error) ==
    IF Includes(error.message, <<"G", "O", "O", "G", "L", "E", "_", "A", "P", "I", "_", "K", "E", "Y">>) THEN ErrorResult("NoApiKey")
    ELSE SuccessResult("Updated")

\* Step 3, catch: a missing key is a controlled failure, any other error is thrown
\* again and caught by the outer catch
classifyErrorResult(error) ==
    IF Includes(error.message, <<"G", "O", "O", "G", "L", "E", "_", "A", "P", "I", "_", "K", "E", "Y">>) THEN ErrorResult("NoApiKey")
    ELSE Unexpected

\* the handler p ends with the result res
Return(p, res) ==
    /\ pc' = [pc EXCEPT ![p] = "done"]
    /\ run' = [run EXCEPT ![p].result = res]

\* the external calls of a request so far, after the call of the step named;
\* getOctokit throws before any call when the token is missing
Called(log, step, error) == IF error = ErrNoToken THEN log ELSE Append(log, step)

\* the handler p ends at the step named, where error was thrown
Throw(p, step, error, res) ==
    /\ pc' = [pc EXCEPT ![p] = "done"]
    /\ run' = [run EXCEPT ![p].result = res, ![p].failedAt = step, ![p].thrown = error,
                          ![p].calls = Called(@, step, error)]

\* a request arrives while no other is being handled
Request(p) ==
    /\ \A q \in Handlers : pc[q] = "idle"
    /\ p = 1
    /\ hist.runs < MaxRuns
    /\ pc' = [pc EXCEPT ![p] = "fetch"]
    /\ run' = [run EXCEPT ![p] = [NoRun EXCEPT !.start = labels, !.comments0 = comments]]
    /\ issue' = [issue EXCEPT ![p] = NoIssue]
    /\ hasExistingComment' = [hasExistingComment EXCEPT ![p] = FALSE]
    /\ classification' = [classification EXCEPT ![p] = FallbackClassification]
    /\ toRemove' = [toRemove EXCEPT ![p] = <<>>]
    /\ UNCHANGED <<otherVars, storeVars, hist>>

\* a request arrives at the handler p while others may be under way: the handler
\* is async and the transport delivers each request as it comes
Arrive(p) ==
    /\ pc[p] = "idle"
    /\ hist.runs + Cardinality({q \in Handlers : pc[q] # "idle"}) < MaxRuns
    /\ pc' = [pc EXCEPT ![p] = "fetch"]
    /\ run' = [run EXCEPT ![p] = [NoRun EXCEPT !.start = labels, !.comments0 = comments]]
    /\ issue' = [issue EXCEPT ![p] = NoIssue]
    /\ hasExistingComment' = [hasExistingComment EXCEPT ![p] = FALSE]
    /\ classification' = [classification EXCEPT ![p] = FallbackClassification]
    /\ toRemove' = [toRemove EXCEPT ![p] = <<>>]
    /\ UNCHANGED <<otherVars, storeVars, hist>>

\* Step 1: fetchIssue
FetchIssue(p) ==
    /\ pc[p] = "fetch"
    /\ \E faults \in FetchFaults :
         LET data == [title |-> record.title,
                      body |-> IF record.body.t = "string" THEN record.body.s ELSE <<>>,
                      labels |-> labels]
             r == IF env.GITHUB_TOKEN
                  THEN withRetry(Answers(faults, Ok(data)), MaxRetries)
                  ELSE [threw |-> TRUE, value |-> NoValue, error |-> ErrNoToken,
                        calls |-> 0, waits |-> <<>>]
         IN  IF r.threw
             THEN /\ Throw(p, "fetch", r.error, fetchErrorResult(r.error))
                  /\ UNCHANGED issue
             ELSE /\ issue' = [issue EXCEPT ![p] = r.value]
                  /\ pc' = [pc EXCEPT ![p] = "check"]
                  /\ run' = [run EXCEPT ![p].calls = Append(@, "fetch")]
    /\ UNCHANGED <<otherVars, storeVars, hasExistingComment, classification, toRemove, hist>>

\* Step 2: checkExistingTriageComment
CheckExistingTriageComment(p) ==
    /\ pc[p] = "check"
    /\ \E faults \in StoreFaults :
         LET r == withRetry(Answers(faults, Ok(StoreListComments(comments))), MaxRetries)
         IN  IF r.threw
             THEN /\ Throw(p, "check", r.error, Unexpected)
                  /\ UNCHANGED hasExistingComment
             ELSE /\ hasExistingComment' =
                        [hasExistingComment EXCEPT
                           ![p] = \E i \in 1..Len(r.value) : HasSignature(r.value[i])]
                  /\ pc' = [pc EXCEPT ![p] = "classify"]
                  /\ run' = [run EXCEPT ![p].listed = TRUE,
                                        ![p].calls = Append(@, "check")]
    /\ UNCHANGED <<otherVars, storeVars, issue, classification, toRemove, hist>>

\* the oracle's answers to a triage request
TriageOracleOutputs ==
    { Judgment(<<"f", "e", "a", "t", "u", "r", "e">>, <<"P", "1">>, <<"H", "i", "g", "h">>, <<"n", "e", "w", " ", "t", "h", "i", "n", "g">>),
      Judgment(<<"b", "u", "g">>, <<"P", "3">>, <<"L", "o", "w">>, <<"m", "i", "n", "o", "r">>),
      Garbage,
      Blocked }

TriageAnswerScripts ==
    { Direct(o) : o \in TriageOracleOutputs }
    \cup { <<RateLimited, Ok(Garbage), Ok(Garbage)>>,
           <<RateLimited, ResourceExhausted, RateLimited>>,
           <<ServerError, Ok(Garbage), Ok(Garbage)>> }

\* a handler that applies the new labels before it removes the old ones
afterClassifyAddFirst(currentLabels) == "apply"

\* removeTriageLabels returns at once when there is no triage label to remove
afterClassify(currentLabels) ==
    IF triageLabels(currentLabels) = <<>> THEN "apply" ELSE "remove"

\* Step 3: classifyIssue; then removeTriageLabels up to its first removeLabel
ClassifyStep(p) ==
    /\ pc[p] = "classify"
    /\ \E answers \in TriageAnswerScripts :
         LET r == classifyIssue(issue[p].title, issue[p].body, env.GOOGLE_API_KEY, answers)
         IN  IF r.threw
             THEN /\ pc' = [pc EXCEPT ![p] = "done"]
                  /\ run' = [run EXCEPT ![p].result = classifyErrorResult(r.error),
                                        ![p].failedAt = "classify",
                                        ![p].thrown = r.error,
                                        ![p].oracleCalls = r.calls,
                                        ![p].calls = IF r.calls > 0
                                                     THEN Append(@, "classify") ELSE @]
                  /\ UNCHANGED <<classification, toRemove>>
             ELSE /\ classification' = [classification EXCEPT ![p] = r.value]
                  /\ toRemove' = [toRemove EXCEPT ![p] = triageLabels(issue[p].labels)]
                  /\ pc' = [pc EXCEPT ![p] = afterClassify(issue[p].labels)]
                  /\ run' = [run EXCEPT ![p].oracleCalls = r.calls,
                                        ![p].calls = IF r.calls > 0
                                                     THEN Append(@, "classify") ELSE @]
    /\ UNCHANGED <<otherVars, storeVars, issue, hasExistingComment, hist>>

\* Step 4: removeTriageLabels, one turn of its loop
RemoveLabel(p) ==
    /\ pc[p] = "remove"
    /\ toRemove[p] # <<>>
    /\ \E faults \in StoreFaults :
         LET label == Head(toRemove[p])
             r == withRetry(Answers(faults, StoreRemoveLabelAnswer(labels, label)),
                            MaxRetries)
         IN  IF r.threw
             THEN /\ Throw(p, "remove", r.error, Unexpected)
                  /\ UNCHANGED <<labels, toRemove>>
             ELSE /\ labels' = Without(labels, label)
                  /\ toRemove' = [toRemove EXCEPT ![p] = Tail(@)]
                  /\ run' = [run EXCEPT ![p].removed = Append(@, label),
                                        ![p].calls = Append(@, "remove")]
                  /\ pc' = [pc EXCEPT ![p] = IF Tail(toRemove[p]) = <<>>
                                             THEN "apply" ELSE "remove"]
    /\ UNCHANGED <<otherVars, record, comments, env, issue, hasExistingComment,
                   classification, hist>>

\* Step 5: mapToKebabLabels and applyLabels
ApplyLabels(p) ==
    /\ pc[p] = "apply"
    /\ \E faults \in StoreFaults :
         LET newLabels == mapToKebabLabels(classification[p])
             unique == uniqueLabels(newLabels, <<>>)
             r == withRetry(Answers(faults, Ok([kind |-> "added"])), MaxRetries)
         IN  IF unique = <<>>
             THEN /\ pc' = [pc EXCEPT ![p] = "post"]
                  /\ UNCHANGED <<labels, run>>
             ELSE IF r.threw
                  THEN /\ Throw(p, "apply", r.error, Unexpected)
                       /\ UNCHANGED labels
                  ELSE /\ labels' = StoreAddLabels(labels, unique)
                       /\ run' = [run EXCEPT ![p].added = unique,
                                             ![p].calls = Append(@, "apply")]
                       /\ pc' = [pc EXCEPT ![p] = "post"]
    /\ UNCHANGED <<otherVars, record, comments, env, issue, hasExistingComment,
                   classification, toRemove, hist>>

\* a result that reports a posted comment whatever the guard found
resultMessageAlwaysPosted(existing) == SuccessResult("Triaged")

\* the success response: "Existing triage comment was preserved (no duplicate
\* posted)" or "Triage comment posted", by what the guard found
resultMessage(existing) ==
    IF existing THEN SuccessResult("Updated") ELSE SuccessResult("Triaged")

\* Step 6, no existing comment: generateTriageComment and postComment
PostComment(p) ==
    /\ pc[p] = "post"
    /\ ~hasExistingComment[p]
    /\ \E faults \in StoreFaults :
         LET r == withRetry(Answers(faults, Ok([kind |-> "created"])), MaxRetries)
         IN  IF r.threw
             THEN /\ Throw(p, "post", r.error, Unexpected)
                  /\ UNCHANGED comments
             ELSE /\ comments' = Append(comments, generateTriageComment(classification[p]))
                  /\ pc' = [pc EXCEPT ![p] = "done"]
                  /\ run' = [run EXCEPT ![p].posted = TRUE,
                                        ![p].calls = Append(@, "post"),
                                        ![p].result = resultMessage(hasExistingComment[p])]
    /\ UNCHANGED <<otherVars, record, labels, env, issue, hasExistingComment,
                   classification, toRemove, hist>>

\* Step 6, existing comment: nothing is posted
SkipComment(p) ==
    /\ pc[p] = "post"
    /\ hasExistingComment[p]
    /\ Return(p, resultMessage(hasExistingComment[p]))
    /\ UNCHANGED <<otherVars, storeVars, issue, hasExistingComment, classification,
                   toRemove, hist>>

\* what is kept of a finished request
Summary(p) ==
    [ok |-> ~run[p].result.isError, result |-> run[p].result,
     classification |-> classification[p], fetched |-> issue[p].labels,
     before |-> run[p].start, after |-> labels,
     removed |-> run[p].removed, added |-> run[p].added, posted |-> run[p].posted]

NoSummary ==
    [ok |-> FALSE, result |-> NoResult, classification |-> FallbackClassification,
     fetched |-> <<>>, before |-> <<>>, after |-> <<>>, removed |-> <<>>, added |-> <<>>,
     posted |-> FALSE]

\* the handler returns its result to the caller
Respond(p) ==
    /\ pc[p] = "done"
    /\ pc' = [pc EXCEPT ![p] = "idle"]
    /\ hist' = [hist EXCEPT !.runs = @ + 1,
                            !.okRuns = IF run[p].result.isError THEN @ ELSE @ + 1,
                            !.last = Summary(p)]
    /\ UNCHANGED <<otherVars, storeVars, issue, hasExistingComment, classification,
                   toRemove, run>>

(***************************************************************************)
(* index.ts: the batch_triage handler.                                     *)
(***************************************************************************)
\* String.prototype.toUpperCase
UpperChar(c) ==
    IF \E k \in DOMAIN LowerOf : LowerOf[k] = c
    THEN CHOOSE k \in DOMAIN LowerOf : LowerOf[k] = c
    ELSE c

ToUpperCase(s) == SubSeq([i \in 1..Len(s) |-> UpperChar(s[i])], 1, Len(s))

\* time is counted in minutes: the minutes of a day, and the time of the requests
Day == 24 * 60
Now == 100 * Day

\* searchOpenIssues(owner, repo, undefined, 100): per_page of the search
SearchLimit == 100

GEMINI_DELAY_MS == 4000

\* a skip rule that looks for the labels of the triage naming convention only
alreadyTriagedCanonical(issueLabels) ==
    /\ \E i \in 1..Len(issueLabels) : StartsWith(issueLabels[i], <<"t", "y", "p", "e", "-">>)
    /\ \E i \in 1..Len(issueLabels) : StartsWith(issueLabels[i], <<"p", "r", "i", "o", "r", "i", "t", "y", "-">>)
    /\ \E i \in 1..Len(issueLabels) : StartsWith(issueLabels[i], <<"c", "o", "m", "p", "l", "e", "x", "i", "t", "y", "-">>)

\* the skip rule: hasTypeLabel && hasPriorityLabel && hasComplexityLabel
alreadyTriaged(issueLabels) ==
    LET existingLabels == [i \in 1..Len(issueLabels) |-> ToLowerCase(issueLabels[i])]
        hasTypeLabel ==
            \E i \in 1..Len(issueLabels) :
                \/ Includes(existingLabels[i], <<"t", "y", "p", "e", "-">>)
                \/ Includes(existingLabels[i], <<"b", "u", "g">>)
                \/ Includes(existingLabels[i], <<"f", "e", "a", "t", "u", "r", "e">>)
        hasPriorityLabel ==
            \E i \in 1..Len(issueLabels) :
                \/ Includes(existingLabels[i], <<"p", "0">>)
                \/ Includes(existingLabels[i], <<"p", "1">>)
                \/ Includes(existingLabels[i], <<"p", "2">>)
                \/ Includes(existingLabels[i], <<"p", "3">>)
        hasComplexityLabel ==
            \E i \in 1..Len(issueLabels) : Includes(existingLabels[i], <<"c", "o", "m", "p", "l", "e", "x", "i", "t", "y", "-">>)
    IN  hasTypeLabel /\ hasPriorityLabel /\ hasComplexityLabel

\* the labels the batch applies for a classification
batchLabels(c) ==
    << <<"t", "y", "p", "e", "-">> \o ToLowerCase(c.type),
       ToUpperCase(c.priority),
       <<"c", "o", "m", "p", "l", "e", "x", "i", "t", "y", "-">> \o ToLowerCase(c.complexity) >>

\* const stats = { total, triaged: 0, ... }
NewStats(total) ==
    [total |-> total, triaged |-> 0, skipped |-> 0, failed |-> 0,
     byType |-> [k \in {<<"b", "u", "g">>, <<"f", "e", "a", "t", "u", "r", "e">>, <<"q", "u", "e", "s", "t", "i", "o", "n">>, <<"d", "o", "c", "u", "m", "e", "n", "t", "a", "t", "i", "o", "n">>, <<"o", "t", "h", "e", "r">>} |-> 0],
     byPriority |-> [k \in {<<"p", "0">>, <<"p", "1">>, <<"p", "2">>, <<"p", "3">>} |-> 0],
     byComplexity |-> [k \in {<<"l", "o", "w">>, <<"m", "e", "d", "i", "u", "m">>, <<"h", "i", "g", "h">>} |-> 0]]

\* "Update statistics", after a classification
countClassification(stats, c) ==
    LET typeKey == ToLowerCase(c.type)
        byType == IF typeKey \in DOMAIN stats.byType
                  THEN [stats.byType EXCEPT ![typeKey] = @ + 1]
                  ELSE [stats.byType EXCEPT ![<<"o", "t", "h", "e", "r">>] = @ + 1]
    IN  [stats EXCEPT !.triaged = @ + 1,
                      !.byType = byType,
                      !.byPriority[ToLowerCase(c.priority)] = @ + 1,
                      !.byComplexity[ToLowerCase(c.complexity)] = @ + 1]

\* a catch that leaves the failure out of the statistics
countFailureDropped(stats) == stats

\* stats.failed++, in either catch of the loop
countFailure(stats) == [stats EXCEPT !.failed = @ + 1]

\* a batch that applies the labels whatever dry_run says
appliesLabelsAlways(dry_run) == TRUE

\* if (!dry_run)
appliesLabels(dry_run) == ~dry_run

\* the items of the search, as searchOpenIssues maps them to GitHubIssue
SearchItems(store) ==
    LET n == IF Len(store) < SearchLimit THEN Len(store) ELSE SearchLimit
    IN  SubSeq([k \in 1..n |->
                   [number |-> k,
                    title |-> store[k].title,
                    body |-> IF store[k].body.t = "string" THEN store[k].body.s ELSE <<>>,
                    labels |-> store[k].labels,
                    comments |-> Len(store[k].comments),
                    assignee |-> store[k].assignee,
                    created_at |-> store[k].created_at,
                    updated_at |-> store[k].updated_at]], 1, n)

NoBatch ==
    [pc |-> "idle", dry_run |-> FALSE, issues |-> <<>>, i |-> 0, stats |-> NewStats(0),
     results |-> <<>>, classification |-> FallbackClassification, trace |-> <<>>,
     repo0 |-> <<>>, round |-> 0, labelled0 |-> {}, result |-> NoResult]

IdleBatch == repo = <<>> /\ batch = NoBatch

\* the oracle's answers to the classification of one record of a batch
BatchAnswerScripts ==
    { Direct(Judgment(<<"f", "e", "a", "t", "u", "r", "e">>, <<"P", "1">>, <<"H", "i", "g", "h">>, <<"n", "e", "w", " ", "t", "h", "i", "n", "g">>)),
      <<RateLimited, Ok(Garbage), Ok(Garbage)>>,
      <<ServerError, Ok(Garbage), Ok(Garbage)>> }

\* the calls of the record store by the batch may be rate-limited or fail
BatchFaults == { <<>>, <<RateLimited>>, <<ServerError>> }

\* a batch_triage request arrives
BatchRequest ==
    /\ batch.pc = "idle"
    /\ \E dry_run \in BOOLEAN :
         batch' = [NoBatch EXCEPT !.pc = "search", !.dry_run = dry_run, !.repo0 = repo]
    /\ UNCHANGED <<auxVars, classifyVars, storeVars, handlerVars, hist, repo>>

\* a later batch_triage request, after the batch before it has ended; labelled0
\* keeps the records that the batches before it have labelled
BatchAgain ==
    /\ batch.pc = "done"
    /\ batch.round + 1 < MaxBatchRuns
    /\ \E dry_run \in BOOLEAN :
         batch' = [NoBatch EXCEPT
                     !.pc = "search", !.dry_run = dry_run, !.repo0 = repo,
                     !.round = batch.round + 1,
                     !.labelled0 = batch.labelled0
                                     \cup { batch.trace[k].n :
                                              k \in { j \in 1..Len(batch.trace) :
                                                        batch.trace[j].e = "addLabels" } }]
    /\ UNCHANGED <<auxVars, classifyVars, storeVars, handlerVars, hist, repo>>

\* searchOpenIssues, then the empty check and the statistics
BatchSearch ==
    /\ batch.pc = "search"
    /\ \E faults \in BatchFaults :
         LET r == IF env.GITHUB_TOKEN
                  THEN withRetry(Answers(faults, Ok(SearchItems(repo))), MaxRetries)
                  ELSE [threw |-> TRUE, value |-> NoValue, error |-> ErrNoToken,
                        calls |-> 0, waits |-> <<>>]
         IN  IF r.threw
             THEN batch' = [batch EXCEPT !.pc = "done",
                                         !.result = ErrorResult("BatchFailed")]
             ELSE IF Len(r.value) = 0
                  THEN batch' = [batch EXCEPT !.pc = "done",
                                              !.result = SuccessResult("NoOpenIssues")]
                  ELSE batch' = [batch EXCEPT !.pc = "loop",
                                              !.issues = r.value,
                                              !.i = 0,
                                              !.stats = NewStats(Len(r.value))]
    /\ UNCHANGED <<auxVars, classifyVars, storeVars, handlerVars, hist, repo>>

\* one turn of the loop for a record that is skipped: stats.skipped++; continue
BatchSkip ==
    /\ batch.pc = "loop"
    /\ batch.i < Len(batch.issues)
    /\ LET issue_ == batch.issues[batch.i + 1] IN
         /\ alreadyTriaged(issue_.labels)
         /\ batch' = [batch EXCEPT !.stats.skipped = @ + 1,
                                   !.i = @ + 1,
                                   !.trace = Append(@, [e |-> "skip", n |-> issue_.number])]
    /\ UNCHANGED <<auxVars, classifyVars, storeVars, handlerVars, hist, repo>>

\* where the loop goes after the labels or the dry-run line of record i:
\* if (i < issues.length - 1) it sleeps, else it takes the next turn
AfterRecord(b) ==
    IF b.i < Len(b.issues) - 1 THEN [b EXCEPT !.pc = "sleep"]
    ELSE [b EXCEPT !.pc = "loop", !.i = @ + 1]

\* one turn of the loop for a record that is not skipped, up to its labels
BatchClassify ==
    /\ batch.pc = "loop"
    /\ batch.i < Len(batch.issues)
    /\ LET issue_ == batch.issues[batch.i + 1] IN
         /\ ~alreadyTriaged(issue_.labels)
         /\ \E answers \in BatchAnswerScripts :
              LET r == classifyIssue(issue_.title, issue_.body, env.GOOGLE_API_KEY, answers)
                  called == IF r.calls > 0
                            THEN << [e |-> "oracle", n |-> issue_.number] >>
                            ELSE <<>>
              IN  IF r.threw
                  THEN batch' = [batch EXCEPT
                                   !.stats = countFailure(@),
                                   !.results = Append(@, [n |-> issue_.number,
                                                          line |-> "Failed"]),
                                   !.trace = @ \o called
                                               \o << [e |-> "failed",
                                                      n |-> issue_.number] >>,
                                   !.i = @ + 1]
                  ELSE LET b == [batch EXCEPT
                                   !.stats = countClassification(@, r.value),
                                   !.classification = r.value,
                                   !.trace = @ \o called
                                               \o << [e |-> "classified",
                                                      n |-> issue_.number] >>]
                       IN  IF appliesLabels(batch.dry_run)
                           THEN batch' = [b EXCEPT !.pc = "label"]
                           ELSE batch' = AfterRecord(
                                           [b EXCEPT !.results =
                                                Append(@, [n |-> issue_.number,
                                                           line |-> "DryRun"])])
    /\ UNCHANGED <<auxVars, classifyVars, storeVars, handlerVars, hist, repo>>

\* a labelling that posts the triage comment as the single-record triage does
StoreApplyLabelsAndComment(r, unique) ==
    [r EXCEPT !.labels = StoreAddLabels(@, unique),
              !.comments = Append(@, generateTriageComment(FallbackClassification))]

\* what applyLabels does to the record r of the repository: issues.addLabels
StoreApplyLabels(r, unique) == [r EXCEPT !.labels = StoreAddLabels(@, unique)]

\* applyLabels(owner, repo, issue.number, labels) and its catch
BatchApplyLabels ==
    /\ batch.pc = "label"
    /\ \E faults \in BatchFaults :
         LET issue_ == batch.issues[batch.i + 1]
             unique == uniqueLabels(batchLabels(batch.classification), <<>>)
             r == withRetry(Answers(faults, Ok([kind |-> "added"])), MaxRetries)
         IN  IF r.threw
             THEN /\ batch' = AfterRecord(
                                [batch EXCEPT
                                   !.stats = countFailure(@),
                                   !.results = Append(@, [n |-> issue_.number,
                                                          line |-> "LabelingFailed"]),
                                   !.trace = Append(@, [e |-> "labelFailed",
                                                        n |-> issue_.number])])
                  /\ UNCHANGED repo
             ELSE /\ repo' = [repo EXCEPT ![issue_.number] = StoreApplyLabels(@, unique)]
                  /\ batch' = AfterRecord(
                                [batch EXCEPT
                                   !.results = Append(@, [n |-> issue_.number,
                                                          line |-> "Labelled"]),
                                   !.trace = Append(@, [e |-> "addLabels",
                                                        n |-> issue_.number])])
    /\ UNCHANGED <<auxVars, classifyVars, storeVars, handlerVars, hist>>

\* await new Promise(resolve => setTimeout(resolve, GEMINI_DELAY_MS))
BatchSleep ==
    /\ batch.pc = "sleep"
    /\ batch' = [batch EXCEPT !.pc = "loop",
                              !.i = @ + 1,
                              !.trace = Append(@, [e |-> "sleep", n |-> GEMINI_DELAY_MS])]
    /\ UNCHANGED <<auxVars, classifyVars, storeVars, handlerVars, hist, repo>>

\* after the loop: the summary is returned
BatchSummary ==
    /\ batch.pc = "loop"
    /\ batch.i = Len(batch.issues)
    /\ batch' = [batch EXCEPT !.pc = "done", !.result = SuccessResult("Summary")]
    /\ UNCHANGED <<auxVars, classifyVars, storeVars, handlerVars, hist, repo>>

(***************************************************************************)
(* index.ts: the triage_issue handler, contributor mode.                   *)
(***************************************************************************)
\* labels.some(l => l.includes(a) || l.includes(b)), on the lowercased labels
SomeIncludes(issueLabels, words) ==
    \E i \in 1..Len(issueLabels) :
        \E w \in words : Includes(ToLowerCase(issueLabels[i]), w)

Min(a, b) == IF a < b THEN a ELSE b

\* a score whose penalty for the comments has no cap
calculateScoreUncapped(issue_) ==
    100 - issue_.comments * 5
        + (IF SomeIncludes(issue_.labels, { <<"g", "o", "o", "d", " ", "f", "i", "r", "s", "t", " ", "i", "s", "s", "u", "e">>, <<"g", "o", "o", "d", "-", "f", "i", "r", "s", "t", "-", "i", "s", "s", "u", "e">> })
           THEN 50 ELSE 0)
        + (IF SomeIncludes(issue_.labels, { <<"h", "e", "l", "p", " ", "w", "a", "n", "t", "e", "d">>, <<"h", "e", "l", "p", "-", "w", "a", "n", "t", "e", "d">> })
           THEN 30 ELSE 0)
        + (IF SomeIncludes(issue_.labels, { <<"e", "a", "s", "y">>, <<"b", "e", "g", "i", "n", "n", "e", "r">> }) THEN 40 ELSE 0)
        + (IF SomeIncludes(issue_.labels, { <<"d", "o", "c", "u", "m", "e", "n", "t", "a", "t", "i", "o", "n">>, <<"d", "o", "c", "s">> }) THEN 20 ELSE 0)

\* calculateScore: the beginner-friendliness of an issue
calculateScore(issue_) ==
    100 - Min(issue_.comments * 5, 30)
        + (IF SomeIncludes(issue_.labels, { <<"g", "o", "o", "d", " ", "f", "i", "r", "s", "t", " ", "i", "s", "s", "u", "e">>, <<"g", "o", "o", "d", "-", "f", "i", "r", "s", "t", "-", "i", "s", "s", "u", "e">> })
           THEN 50 ELSE 0)
        + (IF SomeIncludes(issue_.labels, { <<"h", "e", "l", "p", " ", "w", "a", "n", "t", "e", "d">>, <<"h", "e", "l", "p", "-", "w", "a", "n", "t", "e", "d">> })
           THEN 30 ELSE 0)
        + (IF SomeIncludes(issue_.labels, { <<"e", "a", "s", "y">>, <<"b", "e", "g", "i", "n", "n", "e", "r">> }) THEN 40 ELSE 0)
        + (IF SomeIncludes(issue_.labels, { <<"d", "o", "c", "u", "m", "e", "n", "t", "a", "t", "i", "o", "n">>, <<"d", "o", "c", "s">> }) THEN 20 ELSE 0)

estimateComplexity(issue_) ==
    IF SomeIncludes(issue_.labels, { <<"c", "o", "m", "p", "l", "e", "x", "i", "t", "y", "-", "l", "o", "w">>, <<"e", "a", "s", "y">>, <<"s", "i", "m", "p", "l", "e">> }) THEN "Low"
    ELSE IF SomeIncludes(issue_.labels, { <<"c", "o", "m", "p", "l", "e", "x", "i", "t", "y", "-", "h", "i", "g", "h">>, <<"h", "a", "r", "d">>, <<"c", "o", "m", "p", "l", "e", "x">> })
         THEN "High"
    ELSE IF SomeIncludes(issue_.labels, { <<"c", "o", "m", "p", "l", "e", "x", "i", "t", "y", "-", "m", "e", "d", "i", "u", "m">>, <<"m", "o", "d", "e", "r", "a", "t", "e">> })
         THEN "Medium"
    ELSE IF issue_.comments < 3 THEN "Low"
    ELSE IF issue_.comments > 10 THEN "High"
    ELSE "Medium"

suggestSkillFit(issue_) ==
    LET fits ==
          (IF SomeIncludes(issue_.labels, { <<"f", "r", "o", "n", "t", "e", "n", "d">>, <<"u", "i">>, <<"c", "s", "s">> })
           THEN <<"Frontend">> ELSE <<>>)
          \o (IF SomeIncludes(issue_.labels, { <<"b", "a", "c", "k", "e", "n", "d">>, <<"a", "p", "i">>, <<"s", "e", "r", "v", "e", "r">> })
              THEN <<"Backend">> ELSE <<>>)
          \o (IF SomeIncludes(issue_.labels, { <<"d", "o", "c", "u", "m", "e", "n", "t", "a", "t", "i", "o", "n">>, <<"d", "o", "c", "s">> })
              THEN <<"Documentation">> ELSE <<>>)
          \o (IF SomeIncludes(issue_.labels, { <<"t", "e", "s", "t", "i", "n", "g">>, <<"t", "e", "s", "t">> })
              THEN <<"Testing">> ELSE <<>>)
    IN  IF fits # <<>> THEN fits ELSE <<"General">>

\* a filter that lets the assigned issues through
unassignedIssuesAll(issues) == issues

\* issues.filter(issue => !issue.assignee)
unassignedIssues(issues) == SelectSeq(issues, LAMBDA x : x.assignee.t = "null")

\* an insertion that puts the item before the items of equal score
InsertBeforeEqual(sorted, item) ==
    LET before == SelectSeq(sorted, LAMBDA x : x.score > item.score)
        after == SelectSeq(sorted, LAMBDA x : x.score <= item.score)
    IN  before \o <<item>> \o after

\* Array.prototype.sort((a, b) => b.score - a.score) is stable: the item goes
\* after the items that do not compare after it
Insert(sorted, item) ==
    LET before == SelectSeq(sorted, LAMBDA x : x.score >= item.score)
        after == SelectSeq(sorted, LAMBDA x : x.score < item.score)
    IN  before \o <<item>> \o after

RECURSIVE SortByScore(_, _)
SortByScore(items, sorted) ==
    IF items = <<>> THEN sorted
    ELSE SortByScore(Tail(items), Insert(sorted, Head(items)))

\* rankedIssues: map, then sort
rankedIssues(issues) ==
    LET scored == [k \in 1..Len(issues) |->
                      [issue |-> issues[k],
                       score |-> calculateScore(issues[k]),
                       complexity |-> estimateComplexity(issues[k]),
                       skillFit |-> suggestSkillFit(issues[k])]]
    IN  SortByScore(SubSeq(scored, 1, Len(issues)), <<>>)

\* labels?.filter(l => l && l.trim().length > 0)
filteredLabels(ls) == SelectSeq(ls, LAMBDA l : l # <<>> /\ Trim(l) # <<>>)

\* the answer of the search to the query of searchOpenIssues: the open issues
\* that carry every label asked for, at most limit of them
SearchAnswer(store, wanted, limit) ==
    LET all == SearchItems(store)
        hits == SelectSeq(all, LAMBDA x :
                    \A i \in 1..Len(wanted) :
                        \E j \in 1..Len(x.labels) :
                            ToLowerCase(x.labels[j]) = ToLowerCase(wanted[i]))
    IN  SubSeq(hits, 1, Min(Len(hits), limit))

NoTool ==
    [pc |-> "idle", name |-> "none", labels |-> <<>>, limit |-> 0, fetched |-> <<>>,
     ranked |-> <<>>, stats |-> [totalOpen |-> 0], doc |-> [total_open_issues |-> 0],
     repo0 |-> <<>>, calls |-> <<>>, result |-> NoResult]

\* a search that labels what it finds
StoreSearchLabelling(store) ==
    [k \in 1..Len(store) |-> [store[k] EXCEPT !.labels = Append(@, <<"s", "e", "e", "n">>)]]

\* the repository after search.issuesAndPullRequests: a read, the store is as it was
StoreSearch(store) == store

\* the external calls of a request that has made its search
AfterSearch(t, r) == [t EXCEPT !.pc = "done",
                               !.calls = IF r.calls > 0 THEN Append(@, "search") ELSE @]

IdleTool == tool = NoTool

\* the label filters and the limits of the requests
ContributorLabels == { <<>>, << <<>>, <<" ">> >>, << <<"d", "o", "c", "s">> >> }
ContributorLimits == { 2, 10 }

\* a triage_issue request, contributor mode, arrives
ContributorRequest ==
    /\ tool.pc = "idle"
    /\ \E ls \in ContributorLabels, limit \in ContributorLimits :
         tool' = [NoTool EXCEPT !.pc = "search", !.name = "contributor",
                                !.labels = filteredLabels(ls), !.limit = limit,
                                !.repo0 = repo]
    /\ UNCHANGED <<classifyVars, storeVars, handlerVars, hist, batchVars, retry>>

\* the errors of the search, as Step 1 of the mode answers them
searchErrorResult(error) ==
    IF error.status = 404 THEN ErrorResult("RepoNotFound")
    ELSE IF error.status = 401 \/ error.status = 403 THEN ErrorResult("Auth")
         ELSE Unexpected

\* searchOpenIssues, the filter, the ranking and the response
ContributorSearch ==
    /\ tool.pc = "search"
    /\ tool.name = "contributor"
    /\ \E faults \in FetchFaults :
         LET r == IF env.GITHUB_TOKEN
                  THEN withRetry(Answers(faults,
                                         Ok(SearchAnswer(repo, tool.labels, tool.limit))),
                                 MaxRetries)
                  ELSE [threw |-> TRUE, value |-> NoValue, error |-> ErrNoToken,
                        calls |-> 0, waits |-> <<>>]
         IN  IF r.threw
             THEN tool' = [AfterSearch(tool, r) EXCEPT
                             !.result = searchErrorResult(r.error)]
             ELSE IF unassignedIssues(r.value) = <<>>
                  THEN tool' = [AfterSearch(tool, r) EXCEPT
                                  !.fetched = r.value,
                                  !.result = SuccessResult("NoUnassigned")]
                  ELSE tool' = [AfterSearch(tool, r) EXCEPT
                                  !.fetched = r.value,
                                  !.ranked = rankedIssues(unassignedIssues(r.value)),
                                  !.result = SuccessResult("Recommendations")]
    /\ repo' = StoreSearch(repo)
    /\ UNCHANGED <<classifyVars, storeVars, handlerVars, hist, batch, retry>>

(***************************************************************************)
(* index.ts: the triage_stats handler, and the requests that are answered  *)
(* at once.                                                                *)
(***************************************************************************)
THIRTY_DAYS_MS == 30 * Day

SomeLabel(ls, Test(_)) == \E i \in 1..Len(ls) : Test(ToLowerCase(ls[i]))

\* "Type classification"
statsType(ls) ==
    IF SomeLabel(ls, LAMBDA l : Includes(l, <<"b", "u", "g">>) \/ l = <<"t", "y", "p", "e", "-", "b", "u", "g">>) THEN "bug"
    ELSE IF SomeLabel(ls, LAMBDA l : \/ Includes(l, <<"f", "e", "a", "t", "u", "r", "e">>)
                                     \/ Includes(l, <<"e", "n", "h", "a", "n", "c", "e", "m", "e", "n", "t">>)
                                     \/ l = <<"t", "y", "p", "e", "-", "f", "e", "a", "t", "u", "r", "e">>)
         THEN "feature"
    ELSE IF SomeLabel(ls, LAMBDA l : Includes(l, <<"q", "u", "e", "s", "t", "i", "o", "n">>) \/ l = <<"t", "y", "p", "e", "-", "q", "u", "e", "s", "t", "i", "o", "n">>)
         THEN "question"
    ELSE IF SomeLabel(ls, LAMBDA l : \/ Includes(l, <<"d", "o", "c", "u", "m", "e", "n", "t", "a", "t", "i", "o", "n">>)
                                     \/ Includes(l, <<"d", "o", "c", "s">>)
                                     \/ l = <<"t", "y", "p", "e", "-", "d", "o", "c", "u", "m", "e", "n", "t", "a", "t", "i", "o", "n">>)
         THEN "documentation"
    ELSE IF SomeLabel(ls, LAMBDA l : /\ StartsWith(l, <<"t", "y", "p", "e", "-">>)
                                     /\ ~Includes(l, <<"b", "u", "g">>)
                                     /\ ~Includes(l, <<"f", "e", "a", "t", "u", "r", "e">>))
         THEN "other"
    ELSE "unlabeled"

\* "Priority classification"
statsPriority(ls) ==
    IF SomeLabel(ls, LAMBDA l : l = <<"p", "0">> \/ Includes(l, <<"c", "r", "i", "t", "i", "c", "a", "l">>)) THEN "p0"
    ELSE IF SomeLabel(ls, LAMBDA l : l = <<"p", "1">> \/ Includes(l, <<"h", "i", "g", "h">>)) THEN "p1"
    ELSE IF SomeLabel(ls, LAMBDA l : l = <<"p", "2">> \/ Includes(l, <<"m", "e", "d", "i", "u", "m">>)) THEN "p2"
    ELSE IF SomeLabel(ls, LAMBDA l : l = <<"p", "3">> \/ Includes(l, <<"l", "o", "w">>)) THEN "p3"
    ELSE "unlabeled"

\* "Complexity classification"
statsComplexity(ls) ==
    IF SomeLabel(ls, LAMBDA l : Includes(l, <<"c", "o", "m", "p", "l", "e", "x", "i", "t", "y", "-", "l", "o", "w">>) \/ Includes(l, <<"e", "a", "s", "y">>))
    THEN "low"
    ELSE IF SomeLabel(ls, LAMBDA l : Includes(l, <<"c", "o", "m", "p", "l", "e", "x", "i", "t", "y", "-", "m", "e", "d", "i", "u", "m">>)) THEN "medium"
    ELSE IF SomeLabel(ls, LAMBDA l : \/ Includes(l, <<"c", "o", "m", "p", "l", "e", "x", "i", "t", "y", "-", "h", "i", "g", "h">>)
                                     \/ Includes(l, <<"h", "a", "r", "d">>))
         THEN "high"
    ELSE "unlabeled"

\* Math.round(a / b) for a >= 0 and b > 0
RoundDiv(a, b) == (2 * a + b) \div (2 * b)

RECURSIVE Sum(_, _)
Sum(f, n) == IF n = 0 THEN 0 ELSE f[n] + Sum(f, n - 1)

Count(issues, Test(_)) == Cardinality({ k \in 1..Len(issues) : Test(issues[k]) })

\* "Calculate statistics", over the issues found
calculateStats(issues, now) ==
    [totalOpen |-> Len(issues),
     byType |-> [b \in {"bug", "feature", "question", "documentation", "other",
                        "unlabeled"} |->
                    Count(issues, LAMBDA x : statsType(x.labels) = b)],
     byPriority |-> [b \in {"p0", "p1", "p2", "p3", "unlabeled"} |->
                        Count(issues, LAMBDA x : statsPriority(x.labels) = b)],
     byComplexity |-> [b \in {"low", "medium", "high", "unlabeled"} |->
                          Count(issues, LAMBDA x : statsComplexity(x.labels) = b)],
     avgAge |-> RoundDiv(Sum([k \in 1..Len(issues) |-> now - issues[k].created_at],
                             Len(issues)),
                         Len(issues) * Day),
     staleCount |-> Count(issues, LAMBDA x : now - x.updated_at > THIRTY_DAYS_MS)]

\* a triage_stats request arrives
StatsRequest ==
    /\ tool.pc = "idle"
    /\ tool' = [NoTool EXCEPT !.pc = "search", !.name = "triage_stats", !.repo0 = repo]
    /\ UNCHANGED <<classifyVars, storeVars, handlerVars, hist, batchVars, retry>>

\* searchOpenIssues, the statistics and the response
StatsSearch ==
    /\ tool.pc = "search"
    /\ tool.name = "triage_stats"
    /\ \E faults \in FetchFaults :
         LET r == IF env.GITHUB_TOKEN
                  THEN withRetry(Answers(faults, Ok(SearchItems(repo))), MaxRetries)
                  ELSE [threw |-> TRUE, value |-> NoValue, error |-> ErrNoToken,
                        calls |-> 0, waits |-> <<>>]
         IN  IF r.threw
             THEN tool' = [AfterSearch(tool, r) EXCEPT
                             !.result = ErrorResult("StatsFailed")]
             ELSE IF Len(r.value) = 0
                  THEN tool' = [AfterSearch(tool, r) EXCEPT
                                  !.result = SuccessResult("NoOpenIssues")]
                  ELSE tool' = [AfterSearch(tool, r) EXCEPT
                                  !.fetched = r.value,
                                  !.stats = calculateStats(r.value, Now),
                                  !.result = SuccessResult("Statistics")]
    /\ repo' = StoreSearch(repo)
    /\ UNCHANGED <<classifyVars, storeVars, handlerVars, hist, batch, retry>>

\* the catch of each tool, for the error thrown by the parse of its arguments
catchOf(name) ==
    IF name = "triage_issue" THEN Unexpected
    ELSE IF name = "batch_triage" THEN ErrorResult("BatchFailed")
    ELSE ErrorResult("StatsFailed")

\* a request whose arguments the schema of its tool rejects
InvalidArguments ==
    /\ tool.pc = "idle"
    /\ \E name \in {"triage_issue", "batch_triage", "triage_stats"} :
         tool' = [NoTool EXCEPT !.pc = "done", !.name = name, !.result = catchOf(name)]
    /\ UNCHANGED <<classifyVars, storeVars, handlerVars, hist, batchVars, retry>>

\* a maintainer-mode request without issue_number
MissingIssueNumber ==
    /\ tool.pc = "idle"
    /\ tool' = [NoTool EXCEPT !.pc = "done", !.name = "triage_issue",
                              !.result = ErrorResult("IssueNumberRequired")]
    /\ UNCHANGED <<classifyVars, storeVars, handlerVars, hist, batchVars, retry>>

\* a request that names no tool of the server
UnknownTool ==
    /\ tool.pc = "idle"
    /\ tool' = [NoTool EXCEPT !.pc = "done", !.name = "unknown",
                              !.result = ErrorResult("UnknownTool")]
    /\ UNCHANGED <<classifyVars, storeVars, handlerVars, hist, batchVars, retry>>

(***************************************************************************)
(* index.ts: the handler of resource reads, triage://stats/{owner}/{repo}. *)
(***************************************************************************)
\* searchOpenIssues(owner, repo): limit: number = 10
DefaultLimit == 10

\* issues.filter(i => i.labels.some(l => test(l.toLowerCase()))).length
CountSome(issues, Test(_)) == Count(issues, LAMBDA x : SomeLabel(x.labels, Test))

\* "Calculate statistics" and "Calculate 'other' type"
resourceStats(issues, now) ==
    LET bug == CountSome(issues, LAMBDA l : Includes(l, <<"b", "u", "g">>))
        feature == CountSome(issues, LAMBDA l : \/ Includes(l, <<"f", "e", "a", "t", "u", "r", "e">>)
                                                \/ Includes(l, <<"e", "n", "h", "a", "n", "c", "e", "m", "e", "n", "t">>))
        documentation == CountSome(issues, LAMBDA l : \/ Includes(l, <<"d", "o", "c", "u", "m", "e", "n", "t", "a", "t", "i", "o", "n">>)
                                                      \/ Includes(l, <<"d", "o", "c", "s">>))
        question == CountSome(issues, LAMBDA l : Includes(l, <<"q", "u", "e", "s", "t", "i", "o", "n">>))
    IN  [total_open_issues |-> Len(issues),
         by_type |-> [bug |-> bug, feature |-> feature, documentation |-> documentation,
                      question |-> question,
                      other |-> Len(issues) - (bug + feature + documentation + question)],
         by_priority |->
             [p0_critical |-> CountSome(issues, LAMBDA l : \/ l = <<"p", "r", "i", "o", "r", "i", "t", "y", "-", "p", "0">>
                                                           \/ l = <<"c", "r", "i", "t", "i", "c", "a", "l">>),
              p1_high |-> CountSome(issues, LAMBDA l : l = <<"p", "r", "i", "o", "r", "i", "t", "y", "-", "p", "1">> \/ l = <<"h", "i", "g", "h">>),
              p2_medium |-> CountSome(issues, LAMBDA l : \/ l = <<"p", "r", "i", "o", "r", "i", "t", "y", "-", "p", "2">>
                                                         \/ l = <<"m", "e", "d", "i", "u", "m">>),
              p3_low |-> CountSome(issues, LAMBDA l : l = <<"p", "r", "i", "o", "r", "i", "t", "y", "-", "p", "3">> \/ l = <<"l", "o", "w">>)],
         by_complexity |->
             [low |-> CountSome(issues, LAMBDA l : \/ Includes(l, <<"c", "o", "m", "p", "l", "e", "x", "i", "t", "y", "-", "l", "o", "w">>)
                                                   \/ Includes(l, <<"e", "a", "s", "y">>)),
              medium |-> CountSome(issues, LAMBDA l : Includes(l, <<"c", "o", "m", "p", "l", "e", "x", "i", "t", "y", "-", "m", "e", "d", "i", "u", "m">>)),
              high |-> CountSome(issues, LAMBDA l : \/ Includes(l, <<"c", "o", "m", "p", "l", "e", "x", "i", "t", "y", "-", "h", "i", "g", "h">>)
                                                    \/ Includes(l, <<"h", "a", "r", "d">>))],
         beginner_friendly |->
             CountSome(issues, LAMBDA l : \/ Includes(l, <<"g", "o", "o", "d", " ", "f", "i", "r", "s", "t", " ", "i", "s", "s", "u", "e">>)
                                          \/ Includes(l, <<"h", "e", "l", "p", " ", "w", "a", "n", "t", "e", "d">>)),
         stale_issues |-> Count(issues, LAMBDA x : now - x.updated_at > 30 * Day),
         average_age_days |->
             IF Len(issues) > 0
             THEN RoundDiv(Sum([k \in 1..Len(issues) |-> now - issues[k].created_at],
                               Len(issues)),
                           Len(issues) * Day)
             ELSE 0]

\* a resource read arrives; a URI that is no triage://stats URI makes the handler
\* throw
ResourceRequest ==
    /\ tool.pc = "idle"
    /\ \E matches \in BOOLEAN :
         tool' = [NoTool EXCEPT !.pc = IF matches THEN "search" ELSE "thrown",
                                !.name = "resource", !.repo0 = repo]
    /\ UNCHANGED <<classifyVars, storeVars, handlerVars, hist, batchVars, retry>>

\* searchOpenIssues with its default limit, the statistics and the document; an
\* error of the search is thrown again
ResourceSearch ==
    /\ tool.pc = "search"
    /\ tool.name = "resource"
    /\ \E faults \in FetchFaults :
         LET r == IF env.GITHUB_TOKEN
                  THEN withRetry(Answers(faults, Ok(SearchAnswer(repo, <<>>, DefaultLimit))),
                                 MaxRetries)
                  ELSE [threw |-> TRUE, value |-> NoValue, error |-> ErrNoToken,
                        calls |-> 0, waits |-> <<>>]
         IN  IF r.threw
             THEN tool' = [AfterSearch(tool, r) EXCEPT !.pc = "thrown"]
             ELSE tool' = [AfterSearch(tool, r) EXCEPT
                             !.fetched = r.value,
                             !.doc = resourceStats(r.value, Now),
                             !.result = SuccessResult("Document")]
    /\ repo' = StoreSearch(repo)
    /\ UNCHANGED <<classifyVars, storeVars, handlerVars, hist, batch, retry>>

IdleAux == IdleRetry /\ IdleTool

(***************************************************************************)
(* The records the requests are run on.                                    *)
(***************************************************************************)
BaseLabels ==
    << <<"t", "y", "p", "e", "-", "b", "u", "g">>, <<"p", "r", "i", "o", "r", "i", "t", "y", "-", "p", "3">>, <<"g", "o", "o", "d", " ", "f", "i", "r", "s", "t", " ", "i", "s", "s", "u", "e">>, <<"c", "o", "m", "p", "l", "e", "x", "i", "t", "y", "-", "l", "o", "w">>,
       <<"p", "r", "o", "t", "o", "t", "y", "p", "e", "-", "u", "i">> >>

\* the labels of BaseLabels at the positions S, in the order of BaseLabels
Pick(S) ==
    LET F[k \in 0..Len(BaseLabels)] ==
            IF k = 0 THEN <<>>
            ELSE IF k \in S THEN Append(F[k - 1], BaseLabels[k]) ELSE F[k - 1]
    IN  F[Len(BaseLabels)]

InitLabelLists ==
    { Pick(S) : S \in { T \in SUBSET (1..Len(BaseLabels)) : Cardinality(T) <= MaxInitLabels } }

OtherComment == <<"+", "1">>
QuotingComment == <<">", " ", "U+1F50E", " ", "I", "s", "s", "u", "e", " ", "T", "r", "i", "a", "g", "e", " ", "S", "u", "m", "m", "a", "r", "y", "\n", "i", "s", " ", "t", "h", "i", "s", " ", "r", "i", "g", "h", "t", "?">>

\* n comments of users; with at = 0 none holds the signature, else the one at position at
UserComments(n, at) == [i \in 1..n |-> IF i = at THEN QuotingComment ELSE OtherComment]

InitCommentCounts == { n \in 0..MaxInitComments : n <= 1 \/ n >= PerPage - 1 }

InitCommentLists ==
    { UserComments(n, at) : n \in InitCommentCounts, at \in {0} }
    \cup { UserComments(n, at) : n \in InitCommentCounts \ {0}, at \in {1} }
    \cup { UserComments(n, n) : n \in InitCommentCounts \ {0} }

Records ==
    { [title |-> <<"A", "d", "d", " ", "d", "a", "r", "k", " ", "m", "o", "d", "e">>, body |-> JsStr(<<"p", "l", "e", "a", "s", "e">>)],
      [title |-> <<"A", "p", "p", " ", "c", "r", "a", "s", "h", "e", "d">>, body |-> JsNull] }

BothSet == [GITHUB_TOKEN |-> TRUE, GOOGLE_API_KEY |-> TRUE]
Envs == [GITHUB_TOKEN : BOOLEAN, GOOGLE_API_KEY : BOOLEAN]

FeatureRequest == [title |-> <<"A", "d", "d", " ", "d", "a", "r", "k", " ", "m", "o", "d", "e">>, body |-> JsStr(<<"p", "l", "e", "a", "s", "e">>)]

\* every label list with no comment; every comment list with two label lists;
\* every record and environment with one label list
InitStores ==
    { [record |-> FeatureRequest, labels |-> l, comments |-> <<>>, env |-> BothSet] :
          l \in InitLabelLists }
    \cup
    { [record |-> FeatureRequest, labels |-> l, comments |-> c, env |-> BothSet] :
          l \in {<<>>, Pick({1, 2, 3})}, c \in InitCommentLists }
    \cup
    { [record |-> r, labels |-> Pick({1, 2, 3}), comments |-> <<>>, env |-> e] :
          r \in Records, e \in Envs }

NoHist == [runs |-> 0, okRuns |-> 0, init |-> <<>>, last |-> NoSummary]

IdleHandlers ==
    /\ pc = [p \in Handlers |-> "idle"]
    /\ issue = [p \in Handlers |-> NoIssue]
    /\ hasExistingComment = [p \in Handlers |-> FALSE]
    /\ classification = [p \in Handlers |-> FallbackClassification]
    /\ toRemove = [p \in Handlers |-> <<>>]
    /\ run = [p \in Handlers |-> NoRun]

InitTriage ==
    /\ \E s \in InitStores :
         /\ record = s.record
         /\ labels = s.labels
         /\ comments = s.comments
         /\ env = s.env
         /\ hist = [NoHist EXCEPT !.init = s.comments]
    /\ IdleHandlers

\* SpecClassify leaves the store and the handlers alone
IdleTriage ==
    /\ record = [title |-> <<>>, body |-> JsNull]
    /\ labels = <<>>
    /\ comments = <<>>
    /\ env = BothSet
    /\ hist = NoHist
    /\ IdleHandlers

(***************************************************************************)
(* Specifications.                                                         *)
(***************************************************************************)
NextClassify == ClassifyCall

InitClassifyOnly == InitClassify /\ IdleTriage /\ IdleBatch /\ IdleAux

SpecClassify == InitClassifyOnly /\ [][NextClassify]_vars

Init == InitTriage /\ IdleClassify /\ IdleBatch /\ IdleAux

Next ==
    \E p \in Handlers :
        \/ Request(p)
        \/ FetchIssue(p)
        \/ CheckExistingTriageComment(p)
        \/ ClassifyStep(p)
        \/ RemoveLabel(p)
        \/ ApplyLabels(p)
        \/ PostComment(p)
        \/ SkipComment(p)
        \/ Respond(p)

Spec == Init /\ [][Next]_vars

\* the records two interleaved requests are run on
ConcurrentStores ==
    { [record |-> FeatureRequest, labels |-> l, comments |-> c, env |-> BothSet] :
          l \in {<<>>, Pick({1, 3})}, c \in {<<>>, UserComments(1, 1)} }

InitConcurrent ==
    /\ \E s \in ConcurrentStores :
         /\ record = s.record
         /\ labels = s.labels
         /\ comments = s.comments
         /\ env = s.env
         /\ hist = [NoHist EXCEPT !.init = s.comments]
    /\ IdleHandlers
    /\ IdleClassify
    /\ IdleBatch
    /\ IdleAux

NextConcurrent ==
    \E p \in Handlers :
        \/ Arrive(p)
        \/ FetchIssue(p)
        \/ CheckExistingTriageComment(p)
        \/ ClassifyStep(p)
        \/ RemoveLabel(p)
        \/ ApplyLabels(p)
        \/ PostComment(p)
        \/ SkipComment(p)
        \/ Respond(p)

\* triage requests on one record, interleaved at their external calls
SpecConcurrent == InitConcurrent /\ [][NextConcurrent]_vars


(***************************************************************************)
(* The repositories a batch runs on.                                       *)
(***************************************************************************)
\* no label yet
Unlabelled ==
    [title |-> <<"A", "d", "d", " ", "d", "a", "r", "k", " ", "m", "o", "d", "e">>, body |-> JsStr(<<"p", "l", "e", "a", "s", "e">>), labels |-> <<>>,
     comments |-> <<>>, assignee |-> JsNull,
     created_at |-> Now - Day, updated_at |-> Now - Day]

\* labelled by hand, one label per dimension, none of the naming convention but
\* the last
HandLabelled ==
    [title |-> <<"L", "o", "s", "t", " ", "d", "a", "t", "a">>, body |-> JsNull,
     labels |-> << <<"b", "u", "g">>, <<"P", "1">>, <<"c", "o", "m", "p", "l", "e", "x", "i", "t", "y", "-", "m", "e", "d", "i", "u", "m">> >>,
     comments |-> << OtherComment >>, assignee |-> JsNull,
     created_at |-> Now - Day, updated_at |-> Now - Day]

\* two labels of the naming convention, none for the complexity
HalfTriaged ==
    [title |-> <<"A", "p", "p", " ", "c", "r", "a", "s", "h", "e", "d">>, body |-> JsStr(<<"o", "n", " ", "s", "t", "a", "r", "t">>),
     labels |-> << <<"t", "y", "p", "e", "-", "b", "u", "g">>, <<"p", "r", "i", "o", "r", "i", "t", "y", "-", "p", "3">> >>,
     comments |-> << QuotingComment >>, assignee |-> JsNull,
     created_at |-> Now - Day, updated_at |-> Now - Day]

\* labels that hold the words of the skip rule inside other words, in capitals
LooselyLabelled ==
    [title |-> <<"A", "d", "d", " ", "d", "a", "r", "k", " ", "m", "o", "d", "e">>, body |-> JsNull,
     labels |-> << <<"D", "e", "b", "u", "g", "g", "i", "n", "g">>, <<"h", "e", "l", "p", "-", "P", "3">>, <<"C", "o", "m", "p", "l", "e", "x", "i", "t", "y", "-", "H", "i", "g", "h">> >>,
     comments |-> <<>>, assignee |-> JsNull,
     created_at |-> Now - Day, updated_at |-> Now - Day]

\* a type and a complexity, no priority
NoPriority ==
    [title |-> <<"A", "d", "d", " ", "d", "a", "r", "k", " ", "m", "o", "d", "e">>, body |-> JsStr(<<"p", "l", "e", "a", "s", "e">>),
     labels |-> << <<"f", "e", "a", "t", "u", "r", "e">>, <<"c", "o", "m", "p", "l", "e", "x", "i", "t", "y", "-", "l", "o", "w">>, <<"w", "i", "p">> >>,
     comments |-> <<>>, assignee |-> JsNull,
     created_at |-> Now - Day, updated_at |-> Now - Day]

RECURSIVE SeqsUpTo(_, _)
SeqsUpTo(S, n) ==
    IF n = 0 THEN { <<>> }
    ELSE LET shorter == SeqsUpTo(S, n - 1)
         IN  shorter \cup { Append(s, x) : s \in shorter, x \in S }

\* every repository of up to MaxBatch issues of three kinds; each other kind alone
\* and after an issue that is classified
Repositories ==
    SeqsUpTo({Unlabelled, HandLabelled, HalfTriaged}, MaxBatch)
    \cup { <<r>> : r \in {LooselyLabelled, NoPriority} }
    \cup { <<Unlabelled, r>> : r \in {LooselyLabelled, NoPriority} }

BatchStores ==
    { [repo |-> r, env |-> BothSet] : r \in Repositories }
    \cup { [repo |-> <<Unlabelled, HalfTriaged>>, env |-> e] : e \in Envs }

InitBatch ==
    /\ \E s \in BatchStores :
         /\ repo = s.repo
         /\ env = s.env
    /\ batch = NoBatch
    /\ record = [title |-> <<>>, body |-> JsNull]
    /\ labels = <<>>
    /\ comments = <<>>
    /\ hist = NoHist
    /\ IdleHandlers
    /\ IdleClassify
    /\ IdleAux

NextBatch ==
    \/ BatchRequest
    \/ BatchSearch
    \/ BatchSkip
    \/ BatchClassify
    \/ BatchApplyLabels
    \/ BatchSleep
    \/ BatchSummary

\* one batch_triage run
SpecBatch == InitBatch /\ [][NextBatch]_vars

(***************************************************************************)
(* One call of withRetry.                                                  *)
(***************************************************************************)
InitRetryOnly == InitRetry /\ IdleTriage /\ IdleClassify /\ IdleBatch /\ IdleTool

NextRetry == RetryCall

SpecRetry == InitRetryOnly /\ [][NextRetry]_vars

(***************************************************************************)
(* The repositories a contributor asks about.                              *)
(***************************************************************************)
Someone == [t |-> "object", s |-> <<>>]

OpenIssue(ls, n, assignee) ==
    [title |-> <<"A", "d", "d", " ", "d", "a", "r", "k", " ", "m", "o", "d", "e">>, body |-> JsNull, labels |-> ls,
     comments |-> UserComments(n, 0), assignee |-> assignee,
     created_at |-> Now - Day, updated_at |-> Now - Day]

ContributorIssues ==
    { OpenIssue(<< <<"g", "o", "o", "d", " ", "f", "i", "r", "s", "t", " ", "i", "s", "s", "u", "e">> >>, 0, JsNull),
      OpenIssue(<< <<"H", "e", "l", "p", "-", "W", "a", "n", "t", "e", "d">>, <<"d", "o", "c", "s">> >>, 2, JsNull),
      OpenIssue(<< <<"e", "a", "s", "y">>, <<"B", "e", "g", "i", "n", "n", "e", "r">>, <<"D", "o", "c", "u", "m", "e", "n", "t", "a", "t", "i", "o", "n">> >>, 7, JsNull),
      OpenIssue(<< <<"g", "o", "o", "d", "-", "f", "i", "r", "s", "t", "-", "i", "s", "s", "u", "e">>, <<"h", "e", "l", "p", " ", "w", "a", "n", "t", "e", "d">>, <<"b", "e", "g", "i", "n", "n", "e", "r">>, <<"d", "o", "c", "s">> >>, 0, JsNull),
      OpenIssue(<< <<"g", "o", "o", "d", "-", "f", "i", "r", "s", "t", "-", "i", "s", "s", "u", "e">> >>, 0, Someone),
      OpenIssue(<<>>, 0, JsNull),
      OpenIssue(<< <<"w", "i", "p">> >>, 0, JsNull),
      OpenIssue(<< <<"t", "y", "p", "e", "-", "b", "u", "g">>, <<"b", "a", "c", "k", "e", "n", "d">> >>, 6, JsNull) }

ContributorStores ==
    { [repo |-> r, env |-> BothSet] : r \in SeqsUpTo(ContributorIssues, MaxBatch) }
    \cup { [repo |-> <<OpenIssue(<<>>, 0, JsNull)>>, env |-> e] : e \in Envs }

InitContributor ==
    /\ \E s \in ContributorStores :
         /\ repo = s.repo
         /\ env = s.env
    /\ batch = NoBatch
    /\ tool = NoTool
    /\ record = [title |-> <<>>, body |-> JsNull]
    /\ labels = <<>>
    /\ comments = <<>>
    /\ hist = NoHist
    /\ IdleHandlers
    /\ IdleClassify
    /\ IdleRetry

NextContributor ==
    \/ ContributorRequest
    \/ ContributorSearch

\* one contributor-mode request
SpecContributor == InitContributor /\ [][NextContributor]_vars

(***************************************************************************)
(* One request for any tool of the server.                                 *)
(***************************************************************************)
ToolStores ==
    { [record |-> FeatureRequest, labels |-> Pick({1, 2, 3}), comments |-> c,
       repo |-> r, env |-> e] :
          c \in { <<>>, UserComments(1, 1) },
          r \in { <<>>, <<Unlabelled, HandLabelled>>, <<HalfTriaged>>,
                  << OpenIssue(<< <<"d", "o", "c", "s">> >>, 1, Someone),
                     OpenIssue(<< <<"g", "o", "o", "d", " ", "f", "i", "r", "s", "t", " ", "i", "s", "s", "u", "e">> >>, 0, JsNull) >> },
          e \in Envs }

InitTools ==
    /\ \E s \in ToolStores :
         /\ record = s.record
         /\ labels = s.labels
         /\ comments = s.comments
         /\ env = s.env
         /\ repo = s.repo
         /\ hist = [NoHist EXCEPT !.init = s.comments]
    /\ batch = NoBatch
    /\ tool = NoTool
    /\ IdleHandlers
    /\ IdleClassify
    /\ IdleRetry

\* no request has arrived yet
Fresh ==
    /\ hist.runs = 0
    /\ \A p \in Handlers : pc[p] = "idle"
    /\ batch.pc = "idle"
    /\ tool.pc = "idle"

\* the request: a tool name and arguments
CallTriageIssue == Fresh /\ Request(1)

CallContributor == Fresh /\ ContributorRequest

CallBatchTriage == Fresh /\ BatchRequest

CallTriageStats == Fresh /\ StatsRequest

CallInvalid == Fresh /\ InvalidArguments

CallWithoutNumber == Fresh /\ MissingIssueNumber

CallUnknownTool == Fresh /\ UnknownTool

NextTools ==
    \/ CallTriageIssue
    \/ CallContributor
    \/ CallBatchTriage
    \/ CallTriageStats
    \/ CallInvalid
    \/ CallWithoutNumber
    \/ CallUnknownTool
    \/ \E p \in Handlers :
        \/ FetchIssue(p)
        \/ CheckExistingTriageComment(p)
        \/ ClassifyStep(p)
        \/ RemoveLabel(p)
        \/ ApplyLabels(p)
        \/ PostComment(p)
        \/ SkipComment(p)
        \/ Respond(p)
    \/ ContributorSearch
    \/ BatchSearch
    \/ BatchSkip
    \/ BatchClassify
    \/ BatchApplyLabels
    \/ BatchSleep
    \/ BatchSummary
    \/ StatsSearch

SpecTools == InitTools /\ [][NextTools]_vars

(***************************************************************************)
(* The requests that only read: contributor mode, triage_stats and the     *)
(* stats resource, over repositories of labelled issues.                   *)
(***************************************************************************)
\* an open issue with the labels ls, created and last updated so many days ago
Aged(ls, created, updated) ==
    [title |-> <<"A", "d", "d", " ", "d", "a", "r", "k", " ", "m", "o", "d", "e">>, body |-> JsNull, labels |-> ls, comments |-> <<>>,
     assignee |-> JsNull, created_at |-> Now - created * Day,
     updated_at |-> Now - updated * Day]

\* the classifications an issue may have been triaged with
StatsClassifications ==
    { [type |-> <<"f", "e", "a", "t", "u", "r", "e">>, priority |-> <<"P", "1">>, complexity |-> <<"H", "i", "g", "h">>],
      [type |-> <<"b", "u", "g">>, priority |-> <<"P", "3">>, complexity |-> <<"L", "o", "w">>],
      [type |-> <<"q", "u", "e", "s", "t", "i", "o", "n">>, priority |-> <<"P", "0">>, complexity |-> <<"M", "e", "d", "i", "u", "m">>],
      [type |-> <<"e", "n", "h", "a", "n", "c", "e", "m", "e", "n", "t">>, priority |-> <<"P", "2">>, complexity |-> <<"M", "e", "d", "i", "u", "m">>] }

\* issues labelled by a maintainer-mode triage, by hand with labels of two types,
\* with a word of the ranking, and not at all; fresh, and stale
StatsIssues ==
    { Aged(mapToKebabLabels(c), 3, 1) : c \in StatsClassifications }
    \cup { Aged(<< <<"b", "u", "g">>, <<"f", "e", "a", "t", "u", "r", "e">> >>, 2, 2),
           Aged(<< <<"d", "o", "c", "s">>, <<"g", "o", "o", "d", " ", "f", "i", "r", "s", "t", " ", "i", "s", "s", "u", "e">> >>, 40, 31),
           Aged(<<>>, 61, 60) }

StatsStores ==
    SeqsUpTo(StatsIssues, 2) \cup { [k \in 1..(DefaultLimit + 1) |-> Aged(<<>>, 2, 1)] }

InitStats ==
    /\ repo \in StatsStores
    /\ env \in Envs
    /\ batch = NoBatch
    /\ tool = NoTool
    /\ record = [title |-> <<>>, body |-> JsNull]
    /\ labels = <<>>
    /\ comments = <<>>
    /\ hist = NoHist
    /\ IdleHandlers
    /\ IdleClassify
    /\ IdleRetry

NextStats ==
    \/ ContributorRequest
    \/ ContributorSearch
    \/ StatsRequest
    \/ StatsSearch
    \/ ResourceRequest
    \/ ResourceSearch

SpecStats == InitStats /\ [][NextStats]_vars

(***************************************************************************)
(* A batch after a triage: batch_triage requests one after the other, over *)
(* repositories that hold issues a maintainer-mode triage has labelled.    *)
(***************************************************************************)
\* an open issue as a successful maintainer-mode triage with classification c
\* leaves it: the labels before without those of the naming convention, then the
\* three labels of c
TriagedIssue(before, c) ==
    [title |-> <<"A", "d", "d", " ", "d", "a", "r", "k", " ", "m", "o", "d", "e">>, body |-> JsStr(<<"p", "l", "e", "a", "s", "e">>),
     labels |-> StoreAddLabels(SelectSeq(before, LAMBDA l : ~isTriageLabel(l)),
                               uniqueLabels(mapToKebabLabels(c), <<>>)),
     comments |-> << generateTriageComment(c) >>, assignee |-> JsNull,
     created_at |-> Now - Day, updated_at |-> Now - Day]

RebatchIssues ==
    { Unlabelled, HalfTriaged,
      TriagedIssue(<<>>, [FallbackClassification EXCEPT !.priority = <<"P", "0">>]),
      TriagedIssue(<< <<"w", "i", "p">>, <<"t", "y", "p", "e", "-", "b", "u", "g">> >>,
                   [type |-> <<"q", "u", "e", "s", "t", "i", "o", "n">>, priority |-> <<"P", "3">>, complexity |-> <<"H", "i", "g", "h">>,
                    reasoning |-> <<"a", "s", "k", "s", " ", "h", "o", "w">>]) }

InitRebatch ==
    /\ repo \in SeqsUpTo(RebatchIssues, 2) \ { <<>> }
    /\ env = BothSet
    /\ batch = NoBatch
    /\ tool = NoTool
    /\ record = [title |-> <<>>, body |-> JsNull]
    /\ labels = <<>>
    /\ comments = <<>>
    /\ hist = NoHist
    /\ IdleHandlers
    /\ IdleClassify
    /\ IdleRetry

NextRebatch ==
    \/ BatchRequest
    \/ BatchAgain
    \/ BatchSearch
    \/ BatchSkip
    \/ BatchClassify
    \/ BatchApplyLabels
    \/ BatchSleep
    \/ BatchSummary

SpecRebatch == InitRebatch /\ [][NextRebatch]_vars

(***************************************************************************)
(* Claims about classifyIssue (SpecClassify).                              *)
(* What is expected of an input is written out here by hand, apart from    *)
(* the operators that model the code.                                      *)
(***************************************************************************)
\* the texts of ClassifyInputs in which a P0 pattern occurs: the title alone, the
\* body alone (wherever in it), or "data" ending the title and "loss" opening the body
ExpectP0(title, body) ==
    \/ title = <<"U", "R", "G", "E", "N", "T", ":", " ", "f", "i", "x", " ", "l", "o", "g", "i", "n">>
    \/ body \in { <<"I", "t", " ", "C", "r", "a", "s", "h", "e", "d", " ", "o", "n", " ", "s", "t", "a", "r", "t">>, <<"a", " ", "s", "e", "c", "u", "r", "i", "t", "y", " ", "\n", " ", "f", "l", "a", "w", ",", " ", "s", "e", "e", " ", "C", "V", "E", "-", "7">> }
    \/ Len(body) > 1000 /\ \E i \in 1..Len(body) : body[i] # "x"
    \/ title = <<"L", "o", "s", "t", " ", "d", "a", "t", "a">> /\ Len(body) >= 4 /\ SubSeq(body, 1, 4) = <<"l", "o", "s", "s">>

\* the oracle's answer that the call used: the answer to its last invocation
UsedAnswer == clsIn.answers[clsOut.calls]

Returned == clsOut.called /\ ~clsOut.threw

GotOutput(outputs) ==
    /\ clsOut.called
    /\ clsOut.calls >= 1
    /\ UsedAnswer.ok
    /\ UsedAnswer.value \in outputs

RateLimitAnswers == { RateLimited, ResourceExhausted }

\* The model's heuristic agrees with the expectation written by hand.
HeuristicAsExpected ==
    clsOut.called =>
        (checkP0Keywords(clsIn.title, clsIn.body) <=> ExpectP0(clsIn.title, clsIn.body))

\* C6: whenever a P0 pattern matches the title and body, and whatever the oracle
\* answered (any valid priority, or malformed output), classifyIssue returns
\* priority P0 and a rationale that starts with the override notice.
C6_HeuristicPrecedence ==
    (Returned /\ (ExpectP0(clsIn.title, clsIn.body)
                    \/ checkP0Keywords(clsIn.title, clsIn.body)))
        => /\ clsOut.value.priority = <<"P", "0">>
           /\ Len(clsOut.value.reasoning) >= 46
           /\ SubSeq(clsOut.value.reasoning, 1, 46)
                = <<"P", "0", " ", "o", "v", "e", "r", "r", "i", "d", "e", " ", "a", "p", "p", "l", "i", "e", "d", " ", "d", "u", "e", " ", "t", "o", " ", "c", "r", "i", "t", "i", "c", "a", "l", " ", "k", "e", "y", "w", "o", "r", "d", "s", ".", " ">>

\* C6 witness: the oracle said P3 for a body holding "crashed"; P0 was returned.
C6_Witness ==
    /\ Returned
    /\ clsIn.body = <<"I", "t", " ", "C", "r", "a", "s", "h", "e", "d", " ", "o", "n", " ", "s", "t", "a", "r", "t">>
    /\ clsIn.title = <<"A", "d", "d", " ", "d", "a", "r", "k", " ", "m", "o", "d", "e">>
    /\ GotOutput({Judgment(<<"b", "u", "g">>, <<"P", "3">>, <<"H", "i", "g", "h">>, <<"m", "i", "n", "o", "r">>)})
    /\ clsOut.value.priority = <<"P", "0">>

\* C7 as claimed: for every title and body, malformed oracle output makes
\* classifyIssue return exactly the fixed fallback, without throwing.
C7_AlwaysExactFallback ==
    GotOutput(MalformedOutputs)
        => /\ ~clsOut.threw
           /\ clsOut.value = [type |-> <<"b", "u", "g">>, priority |-> <<"P", "2">>, complexity |-> <<"M", "e", "d", "i", "u", "m">>,
                              reasoning |-> <<"C", "l", "a", "s", "s", "i", "f", "i", "c", "a", "t", "i", "o", "n", " ", "f", "a", "i", "l", "e", "d", ",", " ", "u", "s", "i", "n", "g", " ", "d", "e", "f", "a", "u", "l", "t", " ", "v", "a", "l", "u", "e", "s">>]

\* C7 amended: on malformed oracle output classifyIssue does not throw; it returns
\* exactly the fixed fallback when no P0 pattern matches the title and body, and
\* the fallback with priority P0 and the override notice before its rationale
\* when one matches.
C7_FallbackSafety ==
    GotOutput(MalformedOutputs)
        => /\ ~clsOut.threw
           /\ clsOut.value.type = <<"b", "u", "g">>
           /\ clsOut.value.complexity = <<"M", "e", "d", "i", "u", "m">>
           /\ IF ExpectP0(clsIn.title, clsIn.body)
              THEN /\ clsOut.value.priority = <<"P", "0">>
                   /\ clsOut.value.reasoning =
                        <<"P", "0", " ", "o", "v", "e", "r", "r", "i", "d", "e", " ", "a", "p", "p", "l", "i", "e", "d", " ", "d", "u", "e", " ", "t", "o", " ", "c", "r", "i", "t", "i", "c", "a", "l", " ", "k", "e", "y", "w", "o", "r", "d", "s", ".", " ", "C", "l", "a", "s", "s", "i", "f", "i", "c", "a", "t", "i", "o", "n", " ", "f", "a", "i", "l", "e", "d", ",", " ", "u", "s", "i", "n", "g", " ", "d", "e", "f", "a", "u", "l", "t", " ", "v", "a", "l", "u", "e", "s">>
              ELSE /\ clsOut.value.priority = <<"P", "2">>
                   /\ clsOut.value.reasoning = <<"C", "l", "a", "s", "s", "i", "f", "i", "c", "a", "t", "i", "o", "n", " ", "f", "a", "i", "l", "e", "d", ",", " ", "u", "s", "i", "n", "g", " ", "d", "e", "f", "a", "u", "l", "t", " ", "v", "a", "l", "u", "e", "s">>

\* C7 witness: an out-of-enumeration priority, no P0 pattern, the fallback returned.
C7_Witness ==
    /\ GotOutput({Obj(JsStr(<<"f", "e", "a", "t", "u", "r", "e">>), JsStr(<<"p", "1">>), JsStr(<<"H", "i", "g", "h">>), JsStr(<<"r">>))})
    /\ ~ExpectP0(clsIn.title, clsIn.body)
    /\ ~clsOut.threw
    /\ clsOut.value.priority = <<"P", "2">>
    /\ clsOut.value.type = <<"b", "u", "g">>

C9_OracleAuthoritative ==
    GotOutput(ValidOutputs)
        => /\ ~clsOut.threw
           /\ clsOut.value.type = UsedAnswer.value.obj.type.s
           /\ clsOut.value.complexity = UsedAnswer.value.obj.complexity.s
           /\ ~ExpectP0(clsIn.title, clsIn.body)
                => /\ clsOut.value.priority = UsedAnswer.value.obj.priority.s
                   /\ clsOut.value.reasoning = UsedAnswer.value.obj.reasoning.s

\* C9 witness: a heuristic match on a judgment {feature, P1, High}: type and
\* complexity are kept, the priority is not.
C9_Witness ==
    /\ GotOutput({Judgment(<<"f", "e", "a", "t", "u", "r", "e">>, <<"P", "1">>, <<"H", "i", "g", "h">>, <<"n", "e", "w", " ", "t", "h", "i", "n", "g">>)})
    /\ ExpectP0(clsIn.title, clsIn.body)
    /\ clsOut.value.type = <<"f", "e", "a", "t", "u", "r", "e">>
    /\ clsOut.value.complexity = <<"H", "i", "g", "h">>
    /\ clsOut.value.priority = <<"P", "0">>

\* C10: the body sent to the oracle is the body itself when it has at most 2000
\* characters (2000 included), and otherwise its first 2000 characters followed
\* by the truncation marker: nothing of the body beyond them is sent.
C10_Truncation ==
    (clsOut.called /\ clsOut.calls >= 1)
        => LET sent == clsOut.prompt.body
               body == clsIn.body
           IN  IF Len(body) <= 2000
               THEN sent = body
               ELSE /\ Len(sent) = 2000 + 30
                    /\ \A i \in 1..2000 : sent[i] = body[i]
                    /\ SubSeq(sent, 2001, 2030) = <<"\n", "\n", "[", ".", ".", ".", " ", "t", "r", "u", "n", "c", "a", "t", "e", "d", " ", "f", "o", "r", " ", "a", "n", "a", "l", "y", "s", "i", "s", "]">>

\* C10 witness: a body of 2001 characters was cut to 2000 and the marker.
C10_Witness ==
    /\ clsOut.called
    /\ clsOut.calls >= 1
    /\ Len(clsIn.body) = 2001
    /\ Len(clsOut.prompt.body) = 2030
    /\ clsOut.prompt.body[2000] = "x"


(***************************************************************************)
(* Claims about maintainer-mode triage (Spec).                             *)
(***************************************************************************)
\* s begins with pre
HasPrefix(s, pre) == Len(s) >= Len(pre) /\ SubSeq(s, 1, Len(pre)) = pre

\* the label follows the triage naming convention
Conventional(l) ==
    HasPrefix(l, <<"t", "y", "p", "e", "-">>) \/ HasPrefix(l, <<"p", "r", "i", "o", "r", "i", "t", "y", "-">>) \/ HasPrefix(l, <<"c", "o", "m", "p", "l", "e", "x", "i", "t", "y", "-">>)

NotConventional(l) == ~Conventional(l)

SetOf(s) == { s[i] : i \in 1..Len(s) }

\* the canonical labels of each value of a classification
CanonicalType ==
    [t \in {<<"b", "u", "g">>, <<"f", "e", "a", "t", "u", "r", "e">>, <<"e", "n", "h", "a", "n", "c", "e", "m", "e", "n", "t">>, <<"q", "u", "e", "s", "t", "i", "o", "n">>} |->
        CASE t = <<"b", "u", "g">> -> <<"t", "y", "p", "e", "-", "b", "u", "g">>
          [] t = <<"f", "e", "a", "t", "u", "r", "e">> -> <<"t", "y", "p", "e", "-", "f", "e", "a", "t", "u", "r", "e">>
          [] t = <<"e", "n", "h", "a", "n", "c", "e", "m", "e", "n", "t">> -> <<"t", "y", "p", "e", "-", "e", "n", "h", "a", "n", "c", "e", "m", "e", "n", "t">>
          [] t = <<"q", "u", "e", "s", "t", "i", "o", "n">> -> <<"t", "y", "p", "e", "-", "q", "u", "e", "s", "t", "i", "o", "n">>]
CanonicalPriority ==
    [q \in {<<"P", "0">>, <<"P", "1">>, <<"P", "2">>, <<"P", "3">>} |->
        CASE q = <<"P", "0">> -> <<"p", "r", "i", "o", "r", "i", "t", "y", "-", "p", "0">>
          [] q = <<"P", "1">> -> <<"p", "r", "i", "o", "r", "i", "t", "y", "-", "p", "1">>
          [] q = <<"P", "2">> -> <<"p", "r", "i", "o", "r", "i", "t", "y", "-", "p", "2">>
          [] q = <<"P", "3">> -> <<"p", "r", "i", "o", "r", "i", "t", "y", "-", "p", "3">>]
CanonicalComplexity ==
    [x \in {<<"L", "o", "w">>, <<"M", "e", "d", "i", "u", "m">>, <<"H", "i", "g", "h">>} |->
        CASE x = <<"L", "o", "w">> -> <<"c", "o", "m", "p", "l", "e", "x", "i", "t", "y", "-", "l", "o", "w">>
          [] x = <<"M", "e", "d", "i", "u", "m">> -> <<"c", "o", "m", "p", "l", "e", "x", "i", "t", "y", "-", "m", "e", "d", "i", "u", "m">>
          [] x = <<"H", "i", "g", "h">> -> <<"c", "o", "m", "p", "l", "e", "x", "i", "t", "y", "-", "h", "i", "g", "h">>]

\* the comments that carry the signature
SignatureComments(cs) ==
    { i \in 1..Len(cs) : Includes(cs[i], <<"U+1F50E", " ", "I", "s", "s", "u", "e", " ", "T", "r", "i", "a", "g", "e", " ", "S", "u", "m", "m", "a", "r", "y">>) }

AllIdle == \A p \in Handlers : pc[p] = "idle"
Succeeded(p) == pc[p] = "done" /\ ~run[p].result.isError
Failed(p) == pc[p] = "done" /\ run[p].result.isError

SameLabels(c, d) ==
    c.type = d.type /\ c.priority = d.priority /\ c.complexity = d.complexity

\* C1 as claimed: on a record that had no signature comment, once one or more
\* sequential requests have succeeded exactly one comment carries the signature.
C1_ExactlyOneComment ==
    (AllIdle /\ SignatureComments(hist.init) = {} /\ hist.okRuns >= 1)
        => Cardinality(SignatureComments(comments)) = 1

\* C2: two successful requests in a row with the same classification, the labels
\* fetched anew by the second, leave the same label set.
C2_ReconcileIdempotent ==
    \A p \in Handlers :
        (Succeeded(p) /\ hist.last.ok /\ SameLabels(hist.last.classification, classification[p]))
            => SetOf(labels) = SetOf(hist.last.after)

\* C2 witness: both requests had labels to remove and gave {feature, P1, High}.
C2_Witness ==
    \E p \in Handlers :
        /\ Succeeded(p)
        /\ hist.last.ok
        /\ SameLabels(hist.last.classification, classification[p])
        /\ classification[p].type = <<"f", "e", "a", "t", "u", "r", "e">>
        /\ Len(hist.last.removed) >= 2
        /\ Len(run[p].removed) = 3

\* C3: after a successful request the record carries exactly one label of each
\* dimension, the canonical label of the new classification, whatever it carried
\* before.
C3_OneLabelPerDimension ==
    \A p \in Handlers :
        Succeeded(p) =>
            LET c == classification[p] IN
            /\ { l \in SetOf(labels) : HasPrefix(l, <<"t", "y", "p", "e", "-">>) } = { CanonicalType[c.type] }
            /\ { l \in SetOf(labels) : HasPrefix(l, <<"p", "r", "i", "o", "r", "i", "t", "y", "-">>) }
                 = { CanonicalPriority[c.priority] }
            /\ { l \in SetOf(labels) : HasPrefix(l, <<"c", "o", "m", "p", "l", "e", "x", "i", "t", "y", "-">>) }
                 = { CanonicalComplexity[c.complexity] }

\* C3 witness: the record carried type-bug and complexity-low; it now carries
\* type-feature and complexity-high, and neither of the earlier two.
C3_Witness ==
    \E p \in Handlers :
        /\ Succeeded(p)
        /\ <<"t", "y", "p", "e", "-", "b", "u", "g">> \in SetOf(run[p].start)
        /\ <<"c", "o", "m", "p", "l", "e", "x", "i", "t", "y", "-", "l", "o", "w">> \in SetOf(run[p].start)
        /\ classification[p].type = <<"f", "e", "a", "t", "u", "r", "e">>
        /\ <<"t", "y", "p", "e", "-", "f", "e", "a", "t", "u", "r", "e">> \in SetOf(labels)
        /\ <<"c", "o", "m", "p", "l", "e", "x", "i", "t", "y", "-", "h", "i", "g", "h">> \in SetOf(labels)
        /\ <<"t", "y", "p", "e", "-", "b", "u", "g">> \notin SetOf(labels)
        /\ <<"c", "o", "m", "p", "l", "e", "x", "i", "t", "y", "-", "l", "o", "w">> \notin SetOf(labels)

\* C4: the labels removed are exactly the fetched labels that follow the naming
\* convention, whatever their value, and the labels added are exactly the three
\* canonical labels of the classification.
C4_LabelDelta ==
    \A p \in Handlers :
        Succeeded(p) =>
            LET c == classification[p] IN
            /\ run[p].removed = SelectSeq(issue[p].labels, Conventional)
            /\ run[p].added = << CanonicalType[c.type], CanonicalPriority[c.priority],
                                 CanonicalComplexity[c.complexity] >>

\* C4 witness: {type-bug, priority-p3, good first issue} with {feature, P1, High}
\* removed [type-bug, priority-p3] and added [type-feature, priority-p1,
\* complexity-high].
C4_Witness ==
    \E p \in Handlers :
        /\ Succeeded(p)
        /\ issue[p].labels = << <<"t", "y", "p", "e", "-", "b", "u", "g">>, <<"p", "r", "i", "o", "r", "i", "t", "y", "-", "p", "3">>, <<"g", "o", "o", "d", " ", "f", "i", "r", "s", "t", " ", "i", "s", "s", "u", "e">> >>
        /\ classification[p].type = <<"f", "e", "a", "t", "u", "r", "e">>
        /\ classification[p].priority = <<"P", "1">>
        /\ classification[p].complexity = <<"H", "i", "g", "h">>
        /\ run[p].removed = << <<"t", "y", "p", "e", "-", "b", "u", "g">>, <<"p", "r", "i", "o", "r", "i", "t", "y", "-", "p", "3">> >>
        /\ run[p].added = << <<"t", "y", "p", "e", "-", "f", "e", "a", "t", "u", "r", "e">>, <<"p", "r", "i", "o", "r", "i", "t", "y", "-", "p", "1">>, <<"c", "o", "m", "p", "l", "e", "x", "i", "t", "y", "-", "h", "i", "g", "h">> >>
        /\ labels = << <<"g", "o", "o", "d", " ", "f", "i", "r", "s", "t", " ", "i", "s", "s", "u", "e">>, <<"t", "y", "p", "e", "-", "f", "e", "a", "t", "u", "r", "e">>, <<"p", "r", "i", "o", "r", "i", "t", "y", "-", "p", "1">>,
                       <<"c", "o", "m", "p", "l", "e", "x", "i", "t", "y", "-", "h", "i", "g", "h">> >>

\* C5: from its start to its end, successful or not, a request leaves the labels
\* outside the naming convention as they were, and removes and adds none of them.
C5_NonTriageUntouched ==
    \A p \in Handlers :
        pc[p] # "idle" =>
            /\ SelectSeq(labels, NotConventional) = SelectSeq(run[p].start, NotConventional)
            /\ \A i \in 1..Len(run[p].removed) : Conventional(run[p].removed[i])
            /\ \A i \in 1..Len(run[p].added) : Conventional(run[p].added[i])

\* C5 witness: a request failed after removing a label; "good first issue" and
\* "prototype-ui" are still on the record.
C5_Witness ==
    \E p \in Handlers :
        /\ Failed(p)
        /\ run[p].removed # <<>>
        /\ <<"g", "o", "o", "d", " ", "f", "i", "r", "s", "t", " ", "i", "s", "s", "u", "e">> \in SetOf(labels)
        /\ <<"p", "r", "o", "t", "o", "t", "y", "p", "e", "-", "u", "i">> \in SetOf(labels)

(***************************************************************************)
(* Claims about the failures of a triage request and about the guard.      *)
(***************************************************************************)
FailedAt(p, step) == pc[p] = "done" /\ run[p].failedAt = step

\* the external calls a request has made so far are none but the fetch
OnlyFetched(p) ==
    /\ ~run[p].listed
    /\ run[p].oracleCalls = 0
    /\ run[p].removed = <<>>
    /\ run[p].added = <<>>
    /\ ~run[p].posted
    /\ labels = run[p].start
    /\ comments = run[p].comments0

\* C11: a maintainer-mode run whose fetch of the record fails ends with a tagged
\* error result, not-found for status 404, authentication for 401 and 403, the
\* unexpected-error result for any other failure, and has listed no comment, made
\* no oracle call, removed and added no label and posted no comment
C11_FetchFailure ==
    \A p \in Handlers :
        FailedAt(p, "fetch") =>
            /\ run[p].result.isError
            /\ run[p].result.kind =
                   (IF run[p].thrown.status = 404 THEN "NotFound"
                    ELSE IF run[p].thrown.status \in {401, 403} THEN "Auth"
                         ELSE "Unexpected")
            /\ OnlyFetched(p)

\* each kind of fetch failure has ended a run: 404, 401, 403 after a rate limit,
\* a server error, a persistent rate limit, a missing token
C11_Witness ==
    /\ FailedAt(1, "fetch")
    /\ run[1].thrown.status = 403
    /\ run[1].result = ErrorResult("Auth")
    /\ labels # <<>>

\* C12: a maintainer-mode run whose classification fails, the oracle credential
\* missing or the oracle call failing after its retries, returns a tagged error
\* result and leaves the labels and the comments of the record as they were
\* before the run, with no label removed or added and no comment posted
C12_ClassificationFailure ==
    \A p \in Handlers :
        FailedAt(p, "classify") =>
            /\ run[p].result.isError
            /\ run[p].result.kind \in {"NoApiKey", "Unexpected"}
            /\ (run[p].result.kind = "NoApiKey") <=> ~env.GOOGLE_API_KEY
            /\ run[p].removed = <<>>
            /\ run[p].added = <<>>
            /\ ~run[p].posted
            /\ labels = run[p].start
            /\ comments = run[p].comments0

\* the oracle was rate-limited on each of its three attempts, on a record with
\* triage labels and no triage comment
C12_Witness ==
    /\ FailedAt(1, "classify")
    /\ run[1].oracleCalls = MaxRetries
    /\ run[1].result = Unexpected
    /\ triageLabels(labels) # <<>>
    /\ ~hasExistingComment[1]

\* C13: a removal answered not-found by the store, the label being absent already,
\* does not fail the run
C13_AbsentLabelIsSuccess ==
    \A p \in Handlers : FailedAt(p, "remove") => run[p].thrown.status # 404

\* C14: after two interleaved runs on the same record have completed, at most one
\* comment of the record carries the triage signature
C14_AtMostOneSignature ==
    AllIdle => Cardinality(SignatureComments(comments)) <= 1

\* C15: checkExistingTriageComment returns true if and only if some comment of the
\* record, among all of them, holds the signature
C15_GuardScansAll ==
    \A p \in Handlers :
        pc[p] = "classify" =>
            (hasExistingComment[p] <=> \E i \in 1..Len(comments) : HasSignature(comments[i]))

(***************************************************************************)
(* Claims about batch_triage (SpecBatch).                                  *)
(***************************************************************************)
\* the events of the kinds es, in the order they happened
Events(es) == SelectSeq(batch.trace, LAMBDA x : x.e \in es)

\* the events of the kinds es about the record n
EventsOf(es, n) == SelectSeq(batch.trace, LAMBDA x : x.e \in es /\ x.n = n)

\* the search has succeeded and found issues
Searched == batch.issues # <<>>

\* the records the loop has finished with
Finished == 1..batch.i

\* the label lists that hold a label for each dimension under the loose match,
\* written out: bug / P1 / complexity-medium and Debugging / help-P3 /
\* Complexity-High do; no list with a dimension missing does
ExpectSkipped(ls) ==
    ls \in { << <<"b", "u", "g">>, <<"P", "1">>, <<"c", "o", "m", "p", "l", "e", "x", "i", "t", "y", "-", "m", "e", "d", "i", "u", "m">> >>,
             << <<"D", "e", "b", "u", "g", "g", "i", "n", "g">>, <<"h", "e", "l", "p", "-", "P", "3">>, <<"C", "o", "m", "p", "l", "e", "x", "i", "t", "y", "-", "H", "i", "g", "h">> >> }

\* C16: a record of a batch that carries a label for each dimension under the
\* loose substring match is skipped: the oracle is never invoked for it, no label
\* is applied to it, and skipped is incremented by one for it
C16_SkipRule ==
    Searched =>
        /\ \A n \in 1..Len(batch.issues) :
             ExpectSkipped(batch.issues[n].labels) =>
                 /\ EventsOf({"oracle", "classified", "failed", "addLabels"}, n) = <<>>
                 /\ repo[n].labels = batch.repo0[n].labels
                 /\ Len(EventsOf({"skip"}, n)) = (IF n \in Finished THEN 1 ELSE 0)
        /\ batch.stats.skipped =
               Cardinality({ n \in Finished : ExpectSkipped(batch.issues[n].labels) })

\* a batch that applies labels has classified the first record and skipped the
\* second, whose labels match the rule inside other words and in capitals
C16_Witness ==
    /\ batch.pc = "done"
    /\ ~batch.dry_run
    /\ batch.repo0 = <<Unlabelled, LooselyLabelled>>
    /\ batch.stats.skipped = 1
    /\ batch.stats.triaged = 1
    /\ EventsOf({"addLabels"}, 1) # <<>>

\* C17: once the bulk fetch has succeeded, no failure of a classification or of a
\* labelling aborts the batch: the records are processed once each in fetch
\* order, each failure increments failed, and the run ends with the summary
C17_BatchNeverAborts ==
    /\ Searched =>
         LET visits == Events({"skip", "classified", "failed"}) IN
           /\ Len(visits) = (IF batch.pc \in {"label", "sleep"} THEN batch.i + 1
                             ELSE batch.i)
           /\ \A k \in 1..Len(visits) : visits[k].n = k
           /\ batch.stats.failed = Len(Events({"failed", "labelFailed"}))
           /\ batch.stats.total = Len(batch.issues)
           /\ batch.pc = "done" =>
                /\ batch.result = SuccessResult("Summary")
                /\ Len(visits) = Len(batch.issues)
    /\ batch.result.isError => ~Searched /\ batch.trace = <<>>

\* a batch of three records ended with its summary after a failed classification
\* and a failed labelling
C17_Witness ==
    /\ batch.pc = "done"
    /\ batch.result = SuccessResult("Summary")
    /\ Len(batch.issues) = 3
    /\ Events({"failed"}) # <<>>
    /\ Events({"labelFailed"}) # <<>>
    /\ EventsOf({"addLabels"}, 3) # <<>>

\* C18: a record labelled by a batch that is not a dry run carries exactly one
\* label of the naming convention for each dimension, as after single-record
\* triage
C18_BatchLabelDelta ==
    \A n \in 1..Len(repo) :
        EventsOf({"addLabels"}, n) # <<>> =>
            \A prefix \in { <<"t", "y", "p", "e", "-">>, <<"p", "r", "i", "o", "r", "i", "t", "y", "-">>, <<"c", "o", "m", "p", "l", "e", "x", "i", "t", "y", "-">> } :
                Cardinality({ k \in 1..Len(repo[n].labels) :
                                 HasPrefix(repo[n].labels[k], prefix) }) = 1

\* C19: a batch run with dry_run = true changes no label and no comment of any
\* record, while it classifies the records that are not skipped and counts them
C19_DryRunNoMutation ==
    batch.dry_run =>
        /\ repo = batch.repo0
        /\ Events({"addLabels", "labelFailed"}) = <<>>
        /\ batch.stats.triaged = Len(Events({"classified"}))
        /\ batch.pc = "done" /\ Searched =>
             \A n \in 1..Len(batch.issues) :
                 ~ExpectSkipped(batch.issues[n].labels) =>
                     EventsOf({"classified", "failed"}, n) # <<>>

\* a dry run has classified two records, one of them with labels of its own
C19_Witness ==
    /\ batch.pc = "done"
    /\ batch.dry_run
    /\ batch.stats.triaged = 2
    /\ \E n \in 1..Len(repo) : repo[n] = HalfTriaged /\ EventsOf({"classified"}, n) # <<>>

\* C20: between two oracle invocations of a batch for different records the
\* pacing delay elapses
C20_PacingBetweenOracleCalls ==
    \A a, b \in 1..Len(batch.trace) :
        /\ a < b
        /\ batch.trace[a].e = "oracle"
        /\ batch.trace[b].e = "oracle"
        /\ batch.trace[a].n # batch.trace[b].n
        => \E k \in (a + 1)..(b - 1) :
               batch.trace[k].e = "sleep" /\ batch.trace[k].n = GEMINI_DELAY_MS

(***************************************************************************)
(* Claims about withRetry (SpecRetry).                                     *)
(***************************************************************************)
\* the answers that signal a rate limit, written out: status 429, and the three
\* messages whatever their status
RateLimitSignals ==
    { Fail(429, <<"T", "o", "o", " ", "M", "a", "n", "y", " ", "R", "e", "q", "u", "e", "s", "t", "s">>),
      Fail(0, <<"[", "G", "o", "o", "g", "l", "e", "G", "e", "n", "e", "r", "a", "t", "i", "v", "e", "A", "I", " ", "E", "r", "r", "o", "r", "]", ":", " ", "R", "E", "S", "O", "U", "R", "C", "E", "_", "E", "X", "H", "A", "U", "S", "T", "E", "D">>),
      Fail(403, <<"A", "P", "I", " ", "r", "a", "t", "e", " ", "l", "i", "m", "i", "t", " ", "e", "x", "c", "e", "e", "d", "e", "d", " ", "f", "o", "r", " ", "u", "s", "e", "r">>),
      Fail(0, <<"f", "e", "t", "c", "h", " ", "f", "a", "i", "l", "e", "d", ":", " ", "4", "2", "9">>) }

OtherErrors == { Fail(500, <<"I", "n", "t", "e", "r", "n", "a", "l", " ", "S", "e", "r", "v", "e", "r", " ", "E", "r", "r", "o", "r">>), Fail(404, <<"N", "o", "t", " ", "F", "o", "u", "n", "d">>) }

\* every attempt of the wrapped call reports a rate limit
AlwaysRateLimited ==
    \A k \in 1..retry.maxRetries : retry.answers[k] \in RateLimitSignals

C22_FourAttempts ==
    retry.out.called /\ retry.maxRetries = MaxRetries /\ AlwaysRateLimited =>
        /\ retry.out.calls = 4
        /\ retry.out.waits = <<1000, 2000, 4000>>

\* the attempt the error thrown by withRetry came from: the first that is not a
\* rate-limit signal
FirstOther ==
    CHOOSE k \in 1..retry.maxRetries :
        /\ retry.answers[k] \in OtherErrors
        /\ \A j \in 1..(k - 1) : retry.answers[j] \in RateLimitSignals

\* C23: an error of the wrapped call that is not a rate-limit signal is thrown at
\* once: the call is not invoked again and no wait follows; when it is the first
\* attempt that fails so, the call has been invoked exactly once with no wait
C23_NoRetryOnOtherErrors ==
    /\ retry.out.called /\ retry.answers[1] \in OtherErrors =>
          /\ retry.out.threw
          /\ retry.out.calls = 1
          /\ retry.out.waits = <<>>
          /\ retry.out.error = retry.answers[1].error
    /\ (/\ retry.out.called
        /\ \E k \in 1..retry.maxRetries :
              /\ retry.answers[k] \in OtherErrors
              /\ \A j \in 1..(k - 1) : retry.answers[j] \in RateLimitSignals)
          => /\ retry.out.threw
             /\ retry.out.calls = FirstOther
             /\ Len(retry.out.waits) = FirstOther - 1
             /\ retry.out.error = retry.answers[FirstOther].error

\* a 404 on the first of three attempts, the later ones never made
C23_Witness ==
    /\ retry.out.called
    /\ retry.maxRetries = 3
    /\ retry.answers[1] = Fail(404, <<"N", "o", "t", " ", "F", "o", "u", "n", "d">>)
    /\ retry.answers[2] = Ok([kind |-> "data"])
    /\ retry.out.threw
    /\ retry.out.calls = 1
    /\ retry.out.error.status = 404

(***************************************************************************)
(* Claims about contributor mode (SpecContributor).                        *)
(***************************************************************************)
Recommended == tool.pc = "done" /\ tool.result = SuccessResult("Recommendations")

\* the position of the issue numbered n in the fetched list
FetchedAt(n) == CHOOSE k \in 1..Len(tool.fetched) : tool.fetched[k].number = n

\* C24: the ranking is in non-increasing score order, and two records of equal
\* score stand in the order they had in the fetched list
C24_RankingStable ==
    Recommended =>
        \A a, b \in 1..Len(tool.ranked) :
            a < b =>
                /\ tool.ranked[a].score >= tool.ranked[b].score
                /\ tool.ranked[a].score = tool.ranked[b].score =>
                       FetchedAt(tool.ranked[a].issue.number)
                           < FetchedAt(tool.ranked[b].issue.number)

\* two records of score 100 fetched before one of score 150: the ranking puts
\* the 150 first and keeps the two in their order
C24_Witness ==
    /\ Recommended
    /\ Len(tool.ranked) = 3
    /\ tool.ranked[1].issue.number = 3
    /\ tool.ranked[2].issue.number = 1
    /\ tool.ranked[3].issue.number = 2
    /\ tool.ranked[2].score = tool.ranked[3].score
    /\ tool.ranked[2].issue.labels # tool.ranked[3].issue.labels

\* C25: the ranked output holds every fetched record without an assignee exactly
\* once and no record with an assignee
C25_UnassignedExactlyOnce ==
    tool.pc = "done" /\ tool.name = "contributor" =>
        \A k \in 1..Len(tool.fetched) :
            Cardinality({ a \in 1..Len(tool.ranked) :
                             tool.ranked[a].issue = tool.fetched[k] })
                = (IF tool.fetched[k].assignee = JsNull THEN 1 ELSE 0)

\* an assigned record fetched between two unassigned ones
C25_Witness ==
    /\ Recommended
    /\ Len(tool.fetched) = 3
    /\ tool.fetched[2].assignee # JsNull
    /\ Len(tool.ranked) = 2

\* the lowercased labels of the record hold one of the words
Mentions(item, words) ==
    \E i \in 1..Len(item.issue.labels) :
        \E w \in words : Includes(ToLowerCase(item.issue.labels[i]), w)

Bonus(cond, points) == IF cond THEN points ELSE 0

Penalty(item) ==
    IF 5 * item.issue.comments > 30 THEN 30 ELSE 5 * item.issue.comments

\* C26 as stated: the score is 100 - min(5 * commentCount, 30), + 50 if a label
\* contains good-first-issue, + 30 if one contains help-wanted, + 40 if one
\* contains easy or beginner, + 20 if one contains documentation or docs
C26_ScoreAsStated ==
    Recommended =>
        \A a \in 1..Len(tool.ranked) :
            tool.ranked[a].score =
                100 - Penalty(tool.ranked[a])
                    + Bonus(Mentions(tool.ranked[a], { <<"g", "o", "o", "d", "-", "f", "i", "r", "s", "t", "-", "i", "s", "s", "u", "e">> }), 50)
                    + Bonus(Mentions(tool.ranked[a], { <<"h", "e", "l", "p", "-", "w", "a", "n", "t", "e", "d">> }), 30)
                    + Bonus(Mentions(tool.ranked[a], { <<"e", "a", "s", "y">>, <<"b", "e", "g", "i", "n", "n", "e", "r">> }), 40)
                    + Bonus(Mentions(tool.ranked[a], { <<"d", "o", "c", "u", "m", "e", "n", "t", "a", "t", "i", "o", "n">>, <<"d", "o", "c", "s">> }), 20)

\* C26, amended: the bonuses of 50 and 30 are also given for the labels written
\* with spaces, good first issue and help wanted; labels are compared in lower
\* case; each bonus counts once; the score lies between 70 and 240
C26_Score ==
    Recommended =>
        \A a \in 1..Len(tool.ranked) :
            /\ tool.ranked[a].score =
                  100 - Penalty(tool.ranked[a])
                      + Bonus(Mentions(tool.ranked[a],
                                       { <<"g", "o", "o", "d", "-", "f", "i", "r", "s", "t", "-", "i", "s", "s", "u", "e">>, <<"g", "o", "o", "d", " ", "f", "i", "r", "s", "t", " ", "i", "s", "s", "u", "e">> }), 50)
                      + Bonus(Mentions(tool.ranked[a],
                                       { <<"h", "e", "l", "p", "-", "w", "a", "n", "t", "e", "d">>, <<"h", "e", "l", "p", " ", "w", "a", "n", "t", "e", "d">> }), 30)
                      + Bonus(Mentions(tool.ranked[a], { <<"e", "a", "s", "y">>, <<"b", "e", "g", "i", "n", "n", "e", "r">> }), 40)
                      + Bonus(Mentions(tool.ranked[a], { <<"d", "o", "c", "u", "m", "e", "n", "t", "a", "t", "i", "o", "n">>, <<"d", "o", "c", "s">> }), 20)
            /\ tool.ranked[a].score >= 70
            /\ tool.ranked[a].score <= 240

\* the highest and the lowest score in one ranking, and between them a record
\* with seven comments whose penalty is 30: 240, 130, 70
C26_Witness ==
    /\ Recommended
    /\ Len(tool.ranked) = 3
    /\ tool.ranked[1].score = 240
    /\ tool.ranked[2].score = 130
    /\ tool.ranked[2].issue.comments = 7
    /\ tool.ranked[3].score = 70

(***************************************************************************)
(* Claims about every tool (SpecTools).                                    *)
(***************************************************************************)
\* the texts of the success payloads and of the payloads tagged isError
SuccessTexts ==
    { "Triaged", "Updated", "Recommendations", "NoUnassigned", "NoOpenIssues",
      "Summary", "Statistics" }

ErrorTexts ==
    { "NotFound", "Auth", "NoApiKey", "Unexpected", "RepoNotFound", "BatchFailed",
      "StatsFailed", "IssueNumberRequired", "UnknownTool" }

\* the result is a success payload or a payload tagged isError with its text
Answered(res) ==
    IF res.isError THEN res.kind \in ErrorTexts ELSE res.kind \in SuccessTexts

\* C27: every tool invocation, for every input and every failure of the record
\* store or of the oracle, ends with a result that is a success payload or a
\* payload tagged isError with a text; no invocation ends without a result
C27_AlwaysAResult ==
    /\ \A p \in Handlers : pc[p] = "done" => Answered(run[p].result)
    /\ batch.pc = "done" => Answered(batch.result)
    /\ tool.pc = "done" => Answered(tool.result)
    /\ hist.runs > 0 => Answered(hist.last.result)

\* a maintainer-mode run whose oracle response was blocked, so that
\* response.text() threw outside the try of the classifier, has ended with the
\* error result of the outer catch
C27_Witness ==
    /\ pc[1] = "done"
    /\ run[1].failedAt = "classify"
    /\ run[1].thrown = ErrBlocked
    /\ run[1].result = Unexpected

(***************************************************************************)
(* Claims about the order of the external calls of a maintainer-mode run   *)
(* (Spec).                                                                 *)
(***************************************************************************)
\* the calls that may come immediately before a call
Before(step) ==
    CASE step = "fetch" -> {}
      [] step = "check" -> {"fetch"}
      [] step = "classify" -> {"check"}
      [] step = "remove" -> {"classify", "remove"}
      [] step = "apply" -> {"classify", "remove"}
      [] step = "post" -> {"apply"}

Made(log, step) == \E i \in 1..Len(log) : log[i] = step

\* C28: in every maintainer-mode run the external calls come in the order fetch,
\* list comments, oracle, every label removal, the one label addition, the
\* comment post if any: no removal before the classification is complete, no
\* addition before every removal has succeeded, no post before the labels
\* have been applied
C28_CallOrder ==
    \A p \in Handlers :
        LET log == run[p].calls
        IN  /\ Len(log) > 0 => log[1] = "fetch"
            /\ \A i \in 2..Len(log) : log[i - 1] \in Before(log[i])
            /\ Made(log, "remove") =>
                   /\ run[p].oracleCalls > 0
                   /\ pc[p] \notin {"fetch", "check", "classify"}
            /\ Made(log, "apply") =>
                   /\ run[p].removed = triageLabels(issue[p].labels)
                   /\ toRemove[p] = <<>>
            /\ Made(log, "post") => run[p].added = mapToKebabLabels(classification[p])

\* a run that removed two labels, added the new ones and posted the comment
C28_Witness ==
    /\ pc[1] = "done"
    /\ run[1].calls = <<"fetch", "check", "classify", "remove", "remove", "apply", "post">>
    /\ run[1].posted

(***************************************************************************)
(* Claims about the run that follows a failed run (Spec).                  *)
(***************************************************************************)
\* the labels that removeTriageLabels leaves alone
OtherLabels(ls) == SelectSeq(ls, LAMBDA l : ~isTriageLabel(l))

\* the request of handler p has succeeded and the request before it had failed
\* after it had removed labels or added its own
SucceededAfterFailure(p) ==
    /\ Succeeded(p)
    /\ hist.runs = 1
    /\ ~hist.last.ok
    /\ hist.last.removed # <<>> \/ hist.last.added # <<>>

\* the record carries the three canonical labels of c as its only triage labels,
\* and the other labels that before carried
Reconciled(c, before) ==
    /\ Len(triageLabels(labels)) = 3
    /\ SetOf(triageLabels(labels)) = SetOf(mapToKebabLabels(c))
    /\ OtherLabels(labels) = OtherLabels(before)

\* C29 as claimed: whatever state a failed maintainer-mode run left the record in,
\* one successful run after it leaves exactly the three canonical labels of its
\* classification, the other labels unchanged, and exactly one signature comment
C29_ConvergesAfterFailure ==
    \A p \in Handlers :
        SucceededAfterFailure(p) =>
            /\ Reconciled(classification[p], hist.last.before)
            /\ Cardinality(SignatureComments(comments)) = 1

\* the labels do converge after a failure, whatever the step that failed
C29_LabelsConverge ==
    \A p \in Handlers :
        SucceededAfterFailure(p) => Reconciled(classification[p], hist.last.before)

\* the comments converge when the page listed holds every comment of the record
C29_CommentsConvergeOnOnePage ==
    \A p \in Handlers :
        (SucceededAfterFailure(p) /\ Len(run[p].comments0) <= PerPage)
            => Cardinality(SignatureComments(comments)) = 1

\* the failed run had removed labels and added none, and the run after it has
\* removed the rest, added its three labels and posted the comment
C29_Witness ==
    /\ SucceededAfterFailure(1)
    /\ hist.last.removed # <<>>
    /\ hist.last.added = <<>>
    /\ run[1].removed # <<>>
    /\ run[1].posted

(***************************************************************************)
(* Claims about what the classification depends on (SpecClassify).         *)
(***************************************************************************)
\* the bodies a and b have the same first MaxLength characters
SameHead(a, b) ==
    SubSeq(a, 1, Min(Len(a), MaxLength)) = SubSeq(b, 1, Min(Len(b), MaxLength))

\* C30 as claimed: the classification depends on the title and the first 2000
\* characters of the body only: with the same title, key and oracle answers,
\* every body with the same first 2000 characters gets the same classification,
\* so that a P0 pattern beyond character 2000 does not change the priority
C30_OnlyFirst2000 ==
    (clsOut.called /\ ~clsOut.threw) =>
        \A b \in LongBodies :
            SameHead(b, clsIn.body) =>
                LET r == classifyIssue(clsIn.title, b, clsIn.apiKey, clsIn.answers)
                IN  ~r.threw /\ r.value = clsOut.value

\* the answer of the oracle itself depends on the truncated body only: bodies
\* with the same first 2000 characters differ in the result by the override of
\* the heuristic alone
C30_OnlyTheHeuristicReadsFurther ==
    (clsOut.called /\ ~clsOut.threw) =>
        \A b \in LongBodies :
            (SameHead(b, clsIn.body)
                /\ checkP0Keywords(clsIn.title, b)
                    = checkP0Keywords(clsIn.title, clsIn.body)) =>
                classifyIssue(clsIn.title, b, clsIn.apiKey, clsIn.answers).value
                    = clsOut.value

\* a body whose only P0 pattern lies beyond character 2000 has been classified
C30_Witness ==
    /\ clsOut.called
    /\ ~clsOut.threw
    /\ Len(clsIn.body) > MaxLength
    /\ checkP0Keywords(clsIn.title, clsIn.body)
    /\ ~checkP0Keywords(clsIn.title, SubSeq(clsIn.body, 1, MaxLength))
    /\ clsOut.value.priority = <<"P", "0">>

(***************************************************************************)
(* Claims about interleaved runs on one record (SpecConcurrent).           *)
(***************************************************************************)
\* the labels of the record that start with the prefix
WithPrefix(pre) == { l \in SetOf(labels) : HasPrefix(l, pre) }

OnePerDimension ==
    /\ Cardinality(WithPrefix(<<"t", "y", "p", "e", "-">>)) <= 1
    /\ Cardinality(WithPrefix(<<"p", "r", "i", "o", "r", "i", "t", "y", "-">>)) <= 1
    /\ Cardinality(WithPrefix(<<"c", "o", "m", "p", "l", "e", "x", "i", "t", "y", "-">>)) <= 1

\* the request of handler p has ended and has not been followed by another
Ended(p) == pc[p] \in {"idle", "done"} /\ run[p].result # NoResult

\* C31 as claimed: when two maintainer-mode requests on one record have
\* interleaved, have got different classifications and have both ended, the
\* record carries at most one triage label of each dimension, and no request
\* has failed because the label it was to remove was absent already
C31_InterleavedRunsConverge ==
    /\ \A p, q \in Handlers :
          ( /\ p # q
            /\ Ended(p) /\ ~run[p].result.isError
            /\ Ended(q) /\ ~run[q].result.isError
            /\ ~SameLabels(classification[p], classification[q]) )
          => OnePerDimension
    /\ \A p \in Handlers :
          ~(Ended(p) /\ run[p].failedAt = "remove" /\ run[p].thrown.status = 404)

\* the first half alone: two successful interleaved requests leave at most one
\* triage label of each dimension
C31_OnePerDimension ==
    \A p, q \in Handlers :
        ( /\ p # q
          /\ Ended(p) /\ ~run[p].result.isError
          /\ Ended(q) /\ ~run[q].result.isError
          /\ ~SameLabels(classification[p], classification[q]) )
        => OnePerDimension

(***************************************************************************)
(* Further claims about batch_triage (SpecBatch).                          *)
(***************************************************************************)
\* C32: a batch run posts no comment on any record, with dry_run true or false,
\* whether or not the record holds a triage comment already: the comments of
\* every record are those it had when the request arrived
C32_BatchNeverPosts ==
    batch.pc # "idle" =>
        /\ Len(repo) = Len(batch.repo0)
        /\ \A n \in 1..Len(repo) : repo[n].comments = batch.repo0[n].comments
        /\ comments = <<>>

\* a batch that is no dry run has labelled a record that holds a triage comment
\* and a record that holds no comment
C32_Witness ==
    /\ batch.pc = "done"
    /\ ~batch.dry_run
    /\ \E n, m \in 1..Len(repo) :
         /\ SignatureComments(repo[n].comments) # {}
         /\ EventsOf({"addLabels"}, n) # <<>>
         /\ repo[m].comments = <<>>
         /\ EventsOf({"addLabels"}, m) # <<>>

(***************************************************************************)
(* Claims about the result text of a maintainer-mode run (Spec).           *)
(***************************************************************************)
\* the success result says what the run did with the comment
ReportsWhatItDid(p) ==
    /\ run[p].result.kind = "Triaged" <=> run[p].posted
    /\ run[p].result.kind = "Updated" <=> (hasExistingComment[p] /\ ~run[p].posted)

\* the request of handler p has succeeded and so had the request before it
SecondSuccess(p) == Succeeded(p) /\ hist.runs = 1 /\ hist.last.ok

\* C33 as claimed: a success result reports "comment posted" exactly when the run
\* posted the comment and "existing comment preserved" exactly when the guard
\* found a signature comment and the run posted none; the second of two
\* successful runs on an unchanged record reports the latter
C33_ResultReportsComment ==
    \A p \in Handlers :
        /\ Succeeded(p) => ReportsWhatItDid(p)
        /\ (SecondSuccess(p) /\ run[p].start = hist.last.after)
              => run[p].result.kind = "Updated"

\* the first half alone: every success result says what the run did
C33_ReportsWhatItDid ==
    \A p \in Handlers : Succeeded(p) => ReportsWhatItDid(p)

\* the second run reports the preserved comment when the page that is listed
\* holds every comment of the record
C33_SecondRunOnOnePage ==
    \A p \in Handlers :
        (SecondSuccess(p) /\ Len(run[p].comments0) <= PerPage)
            => run[p].result.kind = "Updated"

(***************************************************************************)
(* Claims about the statistics and the requests that only read (SpecStats).*)
(***************************************************************************)
\* the triage_stats tool has answered with statistics
HasStatistics ==
    tool.pc = "done" /\ tool.name = "triage_stats" /\ tool.result.kind = "Statistics"

\* the stats resource has answered with its document
HasDocument == tool.pc = "done" /\ tool.name = "resource"

\* the document the resource computes from the issues the tool has fetched
DocumentOfFetched == resourceStats(tool.fetched, Now)

\* C34 as claimed: for the same open issues the stats resource and the
\* triage_stats tool report the same counts by type, by priority and by
\* complexity, the same stale count and the same average age
C34_ResourceAgreesWithTool ==
    HasStatistics =>
        LET s == tool.stats
            d == DocumentOfFetched
        IN  /\ s.byType["bug"] = d.by_type.bug
            /\ s.byType["feature"] = d.by_type.feature
            /\ s.byType["question"] = d.by_type.question
            /\ s.byType["documentation"] = d.by_type.documentation
            /\ s.byType["other"] + s.byType["unlabeled"] = d.by_type.other
            /\ s.byPriority["p0"] = d.by_priority.p0_critical
            /\ s.byPriority["p1"] = d.by_priority.p1_high
            /\ s.byPriority["p2"] = d.by_priority.p2_medium
            /\ s.byPriority["p3"] = d.by_priority.p3_low
            /\ s.byComplexity["low"] = d.by_complexity.low
            /\ s.byComplexity["medium"] = d.by_complexity.medium
            /\ s.byComplexity["high"] = d.by_complexity.high
            /\ s.staleCount = d.stale_issues
            /\ s.avgAge = d.average_age_days

\* the stale count and the average age do agree
C34_AgesAgree ==
    HasStatistics =>
        /\ tool.stats.staleCount = DocumentOfFetched.stale_issues
        /\ tool.stats.avgAge = DocumentOfFetched.average_age_days

\* C35: contributor mode, triage_stats and the stats resource change nothing in
\* the record store and never call the oracle: the one external call is the
\* search, and the labels and comments of every record are as they were
C35_ReadOnly ==
    tool.pc \in {"done", "thrown"} =>
        /\ repo = tool.repo0
        /\ labels = <<>> /\ comments = <<>>
        /\ Len(tool.calls) <= 1
        /\ \A i \in 1..Len(tool.calls) : tool.calls[i] = "search"
        /\ ~clsOut.called
        /\ batch = NoBatch
        /\ \A p \in Handlers : pc[p] = "idle" /\ run[p] = NoRun

\* contributor mode has ranked the issues of a repository of two labelled issues
C35_Witness ==
    /\ tool.pc = "done"
    /\ tool.name = "contributor"
    /\ tool.result.kind = "Recommendations"
    /\ tool.calls = << "search" >>
    /\ Len(tool.ranked) = 2
    /\ \A k \in 1..Len(repo) : repo[k].labels # <<>>

\* the buckets of triage_stats that bear the name of the priority and of the
\* complexity of a classification
PriorityBucket(c) ==
    CASE c.priority = <<"P", "0">> -> "p0"
      [] c.priority = <<"P", "1">> -> "p1"
      [] c.priority = <<"P", "2">> -> "p2"
      [] c.priority = <<"P", "3">> -> "p3"

ComplexityBucket(c) ==
    CASE c.complexity = <<"L", "o", "w">> -> "low"
      [] c.complexity = <<"M", "e", "d", "i", "u", "m">> -> "medium"
      [] c.complexity = <<"H", "i", "g", "h">> -> "high"

\* C38 as claimed: an issue whose labels are the canonical labels of a
\* classification is counted by triage_stats under the priority and the
\* complexity of that classification and under a type bucket, not as unlabeled
C38_CanonicalLabelsCounted ==
    HasStatistics =>
        \A k \in 1..Len(tool.fetched), c \in StatsClassifications :
            tool.fetched[k].labels = mapToKebabLabels(c) =>
                /\ tool.stats.byPriority["unlabeled"] < Len(tool.fetched)
                /\ statsPriority(tool.fetched[k].labels) = PriorityBucket(c)
                /\ statsComplexity(tool.fetched[k].labels) = ComplexityBucket(c)
                /\ statsType(tool.fetched[k].labels) # "unlabeled"

\* the complexity and the type of such an issue are counted as claimed
C38_ComplexityAndTypeCounted ==
    HasStatistics =>
        \A k \in 1..Len(tool.fetched), c \in StatsClassifications :
            tool.fetched[k].labels = mapToKebabLabels(c) =>
                /\ statsComplexity(tool.fetched[k].labels) = ComplexityBucket(c)
                /\ statsType(tool.fetched[k].labels) # "unlabeled"

\* C40 as claimed: in the document of the stats resource no count is negative,
\* and the counts by type add up to the total with every issue in one bucket
C40_TypeBucketsPartition ==
    HasDocument =>
        LET t == tool.doc.by_type IN
        /\ t.bug >= 0 /\ t.feature >= 0 /\ t.documentation >= 0
        /\ t.question >= 0 /\ t.other >= 0
        /\ t.bug + t.feature + t.documentation + t.question + t.other
              = tool.doc.total_open_issues
        /\ tool.doc.stale_issues >= 0 /\ tool.doc.average_age_days >= 0

\* the counts do add up to the total, since other is the remainder
C40_SumIsTotal ==
    HasDocument =>
        LET t == tool.doc.by_type IN
        t.bug + t.feature + t.documentation + t.question + t.other
            = tool.doc.total_open_issues

(***************************************************************************)
(* Claims about the counters of a batch and about a batch after a triage   *)
(* (SpecBatch).                                                            *)
(***************************************************************************)
BatchEnded == batch.pc = "done" /\ batch.result = SuccessResult("Summary")

\* C36 as claimed: at the end of a batch every fetched record has been counted in
\* exactly one of triaged, skipped and failed, so that they add up to total, also
\* when a classification succeeded and the labelling failed
C36_CountersPartition ==
    BatchEnded =>
        batch.stats.triaged + batch.stats.skipped + batch.stats.failed = batch.stats.total

\* the counters do add up when no labelling has failed
C36_PartitionWithoutLabelFailure ==
    (BatchEnded /\ Events({"labelFailed"}) = <<>>) =>
        batch.stats.triaged + batch.stats.skipped + batch.stats.failed = batch.stats.total

(***************************************************************************)
(* Claims about a batch after a triage (SpecRebatch).                      *)
(***************************************************************************)
\* the labels hold the three labels a maintainer-mode triage applies for some
\* classification
TriagedByMaintainer(ls) ==
    \E t \in validTypes, p \in validPriorities, x \in validComplexities :
        SetOf(mapToKebabLabels([type |-> t, priority |-> p, complexity |-> x]))
            \subseteq SetOf(ls)

\* the records this system has labelled before the batch under way began: by a
\* maintainer-mode triage, or by a batch that was no dry run
LabelledBefore ==
    { n \in 1..Len(batch.repo0) :
        n \in batch.labelled0 \/ TriagedByMaintainer(batch.repo0[n].labels) }

\* C37: a record that a maintainer-mode triage or a batch that was no dry run has
\* labelled satisfies the skip rule, and a later batch skips it, does not call
\* the oracle for it and changes none of its labels
C37_LaterBatchSkips ==
    /\ \A n \in 1..Len(repo) :
          EventsOf({"addLabels"}, n) # <<>> => alreadyTriaged(repo[n].labels)
    /\ \A n \in LabelledBefore :
          /\ alreadyTriaged(batch.repo0[n].labels)
          /\ repo[n].labels = batch.repo0[n].labels
          /\ EventsOf({"oracle", "classified", "failed", "addLabels", "labelFailed"}, n)
                = <<>>
          /\ (batch.pc \in {"loop", "label", "sleep", "done"} /\ batch.issues # <<>>
                /\ batch.i >= n)
               => EventsOf({"skip"}, n) # <<>>

\* a second batch has ended after it skipped a record that the first batch had
\* labelled and a record a maintainer-mode triage had labelled
C37_Witness ==
    /\ batch.pc = "done"
    /\ batch.round = 1
    /\ batch.result = SuccessResult("Summary")
    /\ \E n \in batch.labelled0, m \in 1..Len(repo) :
         /\ ~TriagedByMaintainer(repo[n].labels)
         /\ EventsOf({"skip"}, n) # <<>>
         /\ m \notin batch.labelled0
         /\ TriagedByMaintainer(repo[m].labels)
         /\ EventsOf({"skip"}, m) # <<>>

(***************************************************************************)
(* A further claim about withRetry (SpecRetry).                            *)
(***************************************************************************)
\* the wrapped call succeeds at attempt k after a rate limit at every attempt
\* before it
SucceedsAt(k) ==
    /\ k \in 1..retry.maxRetries
    /\ retry.answers[k].ok
    /\ \A j \in 1..(k - 1) : retry.answers[j] \in RateLimitSignals

\* C39: when the wrapped call reports a rate limit on its first k - 1 attempts and
\* succeeds at attempt k <= maxRetries, withRetry returns the value of that
\* attempt and the call has been invoked exactly k times, never after the success
C39_SuccessAfterRetries ==
    \A k \in 1..MaxAttempts :
        (retry.out.called /\ SucceedsAt(k)) =>
            /\ ~retry.out.threw
            /\ retry.out.value = retry.answers[k].value
            /\ retry.out.calls = k
            /\ Len(retry.out.waits) = k - 1

\* the third attempt succeeded after a 429 and a RESOURCE_EXHAUSTED message, and
\* its value, not that of another attempt, came back
C39_Witness ==
    /\ retry.out.called
    /\ retry.maxRetries = 3
    /\ retry.answers[1].error.status = 429
    /\ retry.answers[2] \in RateLimitSignals
    /\ retry.answers[2].error.status = 0
    /\ retry.answers[3] = Ok([kind |-> "more"])
    /\ retry.out.calls = 3
    /\ retry.out.value = [kind |-> "more"]

====
